---- MODULE Spec2Model ----
(***************************************************************************)
(* Timetable scheduler core (Backend/app/algorithms_2): the shared         *)
(* Timetable representation, the constraint evaluator, the NSGA-II,        *)
(* MOEA/D and SPEA2 strategies and the quality indicators.                 *)
(*                                                                         *)
(* Python lists are sequences; a Python index i is the TLA+ index i + 1.   *)
(* A fitness vector is a pair <<hard, soft>>.  Floats are exact rationals  *)
(* or, in the pure ranking functions, points of a small integer grid.      *)
(***************************************************************************)
EXTENDS Integers, Sequences, FiniteSets, TLC

VARIABLES
    fits,        \* input list of fitness vectors of the pure ranking functions
    op,          \* the function last applied ("none" before any)
    out,         \* what that function returned
    tt,          \* the timetable handed to the evaluators
    evals,       \* the evaluations of tt made so far, oldest first
    rngDraws,    \* numbers drawn so far from the global random generator
    population,  \* the NSGA-II population, a list of timetables
    to_place,    \* initializer: the sorted activities of the instance
    turn,        \* initializer: index in to_place of the next activity
    new_timetable,     \* initializer: the timetable under construction
    no_room,     \* initializer: activities that met no free room that fits
    heap,        \* MOEA/D: the slot dicts, by reference
    moead_population,  \* MOEA/D: per member, slot -> reference of its dict
    moead_fitness,     \* MOEA/D: the fitness stored for each member
    moead_ideal,       \* MOEA/D: the ideal point
    evaluated,   \* MOEA/D: every fitness vector evaluated so far
    new_solutions,     \* MOEA/D: child1 and child2 of the open subproblem
    pc,          \* MOEA/D: the position inside the subproblem step
    sub,         \* MOEA/D: the subproblem index i (from 1)
    generation,  \* the generation counter of the running driver
    spea2_archive,     \* SPEA2: the archive, a list of timetables
    spea2_archive_fitness, \* SPEA2: the fitness kept for each archive member
    spea2_recorded,    \* SPEA2: every <<individual, fitness>> evaluated so far
    metrics_tracker,   \* the MetricsTracker object of the running driver
    tracker_seen       \* per recorded generation, the fitness list and its front

fitVars == <<fits, op, out>>
evalVars == <<tt, evals, rngDraws>>
initVars == <<to_place, turn, new_timetable, no_room>>
nsga2Vars == <<population, initVars>>
moeadVars == <<heap, moead_population, moead_fitness, moead_ideal, evaluated,
               new_solutions, pc, sub, generation>>
spea2Vars == <<spea2_archive, spea2_archive_fitness, spea2_recorded>>
trackerVars == <<metrics_tracker, tracker_seen>>
vars == <<fitVars, evalVars, nsga2Vars, moeadVars, spea2Vars, trackerVars>>

\* The parts of the state a specification does not use stay at these values.
IdleFit == fits = <<>> /\ op = "none" /\ out = <<>>
IdleEval == tt = <<>> /\ evals = <<>> /\ rngDraws = 0
IdleInit ==
    to_place = <<>> /\ turn = 0 /\ new_timetable = <<>> /\ no_room = {}
IdleNsga2 == population = <<>> /\ IdleInit
IdleSpea2 ==
    spea2_archive = <<>> /\ spea2_archive_fitness = <<>> /\ spea2_recorded = {}
IdleTracker == metrics_tracker = <<>> /\ tracker_seen = <<>>
IdleMoead ==
    /\ heap = <<>> /\ moead_population = <<>> /\ moead_fitness = <<>>
    /\ moead_ideal = <<>> /\ evaluated = {} /\ new_solutions = <<>>
    /\ pc = "idle" /\ sub = 0 /\ generation = 0

(***************************************************************************)
(* Bounds of the model.                                                    *)
(***************************************************************************)
MaxFit == 2      \* fitness components range over 0..MaxFit
MaxN == 3        \* the longest list of fitness vectors

(***************************************************************************)
(* Generic helpers.                                                        *)
(***************************************************************************)
Range(s) == {s[i] : i \in DOMAIN s}

SeqsUpTo(S, n) == UNION {[1..k -> S] : k \in 0..n}

RECURSIVE SumSeq(_)
SumSeq(s) == IF s = <<>> THEN 0 ELSE Head(s) + SumSeq(Tail(s))

RECURSIVE Concat(_)
Concat(ss) == IF ss = <<>> THEN <<>> ELSE Head(ss) \o Concat(Tail(ss))

Abs(x) == IF x < 0 THEN -x ELSE x

\* The indices 1..n in ascending order, as a sequence.
Indices(n) == [i \in 1..n |-> i]

\* Python's sorted(s, key=...): stable, ascending by key[x].
RECURSIVE InsertByKey(_, _, _)
InsertByKey(x, s, key) ==
    IF s = <<>> THEN <<x>>
    ELSE IF key[x] < key[Head(s)] THEN <<x>> \o s
    ELSE <<Head(s)>> \o InsertByKey(x, Tail(s), key)

RECURSIVE SortedAsc(_, _)
SortedAsc(s, key) ==
    IF s = <<>> THEN <<>>
    ELSE InsertByKey(s[Len(s)], SortedAsc(SubSeq(s, 1, Len(s) - 1), key), key)

(***************************************************************************)
(* Pareto dominance: the three implementations.                            *)
(***************************************************************************)
\* zip(fitness1, fitness2) pairs the components up to the shorter length.
Zip(f1, f2) == (DOMAIN f1) \cap (DOMAIN f2)

\* Mutant: the "any strictly better" conjunct is dropped.
dominates_no_strict(fitness1, fitness2) ==
    \A k \in Zip(fitness1, fitness2) : fitness1[k] <= fitness2[k]

\* Nsga_II_optimized.dominates
dominates(fitness1, fitness2) ==
    /\ \A k \in Zip(fitness1, fitness2) : fitness1[k] <= fitness2[k]
    /\ \E k \in Zip(fitness1, fitness2) : fitness1[k] < fitness2[k]

\* metrics.dominates
metrics_dominates(fitness1, fitness2) ==
    /\ \A k \in Zip(fitness1, fitness2) : fitness1[k] <= fitness2[k]
    /\ \E k \in Zip(fitness1, fitness2) : fitness1[k] < fitness2[k]

\* spea2.dominates (the definition in force: the later one, which negates the
\* soft component before comparing).
spea2_dominates(fitness1, fitness2) ==
    LET hard1 == fitness1[1]
        soft1 == -fitness1[2]
        hard2 == fitness2[1]
        soft2 == -fitness2[2]
    IN  \/ (hard1 < hard2 /\ soft1 <= soft2)
        \/ (hard1 <= hard2 /\ soft1 < soft2)

(***************************************************************************)
(* Specifications of the pure functions on fitness vectors: Init draws the *)
(* input list, one action applies the function.                            *)
(***************************************************************************)
FitVals == 0..MaxFit
FitVec == FitVals \X FitVals

InitFit ==
    /\ fits \in SeqsUpTo(FitVec, MaxN)
    /\ op = "none"
    /\ out = <<>>
    /\ IdleEval
    /\ IdleNsga2
    /\ IdleMoead
    /\ IdleSpea2
    /\ IdleTracker

DominatesStep ==
    /\ op = "none"
    /\ \E i \in DOMAIN fits, j \in DOMAIN fits :
         LET a == fits[i]
             b == fits[j]
         IN out' = [a |-> a, b |-> b,
                    nsga |-> [aa |-> dominates(a, a), ab |-> dominates(a, b),
                              ba |-> dominates(b, a)],
                    metrics |-> [aa |-> metrics_dominates(a, a),
                                 ab |-> metrics_dominates(a, b),
                                 ba |-> metrics_dominates(b, a)],
                    spea2 |-> [aa |-> spea2_dominates(a, a),
                               ab |-> spea2_dominates(a, b),
                               ba |-> spea2_dominates(b, a)]]
    /\ op' = "dominates"
    /\ UNCHANGED <<fits, evalVars, nsga2Vars, moeadVars, spea2Vars,
                   trackerVars>>

SpecDom == InitFit /\ [][DominatesStep]_vars

\* C2: dominates(a, a) is false and dominates(a, b), dominates(b, a) are never
\* both true, in each of the three implementations (NSGA-II, metrics, SPEA2).
C2_DominatesIrreflexiveAsymmetric ==
    op = "dominates" =>
        \A impl \in {"nsga", "metrics", "spea2"} :
            /\ ~out[impl].aa
            /\ ~(out[impl].ab /\ out[impl].ba)

\* Two distinct comparable vectors were compared and one dominates the other
\* in all three implementations' own sense.
C2_Witness ==
    /\ op = "dominates"
    /\ out.a /= out.b
    /\ out.nsga.ab /\ out.metrics.ab
    /\ out.spea2.ab \/ out.spea2.ba

(***************************************************************************)
(* NSGA-II: fast non-dominated sort.                                       *)
(***************************************************************************)
\* dominated_by[i]: the individuals i dominates, in ascending index order.
dominated_by(fitness_values, i) ==
    SelectSeq(Indices(Len(fitness_values)),
              LAMBDA j : j /= i /\ dominates(fitness_values[i], fitness_values[j]))

\* Mutant: counts the individuals i dominates instead of its dominators.
domination_count_swapped(fitness_values, i) ==
    Cardinality({j \in DOMAIN fitness_values :
        j /= i /\ dominates(fitness_values[i], fitness_values[j])})

\* domination_count[i] after the first double loop: the number of j that
\* dominate i (counted in the elif branch).
domination_count(fitness_values, i) ==
    Cardinality({j \in DOMAIN fitness_values :
        /\ j /= i
        /\ ~dominates(fitness_values[i], fitness_values[j])
        /\ dominates(fitness_values[j], fitness_values[i])})

\* One pass of "for i in fronts[front_index]: for j in dominated_by[i]":
\* js is the list of the j visited, in order.
RECURSIVE PeelFront(_, _, _)
PeelFront(js, count, next_front) ==
    IF js = <<>> THEN [count |-> count, next_front |-> next_front]
    ELSE LET j == Head(js)
             c == [count EXCEPT ![j] = @ - 1]
         IN PeelFront(Tail(js), c,
                      IF c[j] = 0 THEN Append(next_front, j) ELSE next_front)

\* The while loop: fronts are appended until an empty one is produced, and
\* the empty one is dropped (fronts[:-1]).
RECURSIVE BuildFronts(_, _, _, _)
BuildFronts(fitness_values, front, count, fronts) ==
    IF front = <<>> THEN fronts
    ELSE LET js == Concat([k \in 1..Len(front) |->
                              dominated_by(fitness_values, front[k])])
             r == PeelFront(js, count, <<>>)
         IN BuildFronts(fitness_values, r.next_front, r.count,
                        Append(fronts, front))

fast_nondominated_sort(fitness_values) ==
    LET n == Len(fitness_values)
        count == [i \in 1..n |-> domination_count(fitness_values, i)]
        front0 == SelectSeq(Indices(n), LAMBDA i : count[i] = 0)
    IN BuildFronts(fitness_values, front0, count, <<>>)

\* Nsga_II.fast_nondominated_sort: the same loops without the i == j skip
\* (S[p] and n[p] range over every q, p included).
base_fast_nondominated_sort(fitness_values) ==
    LET n == Len(fitness_values)
        S == [p \in 1..n |-> SelectSeq(Indices(n),
                 LAMBDA q : dominates(fitness_values[p], fitness_values[q]))]
        cnt == [p \in 1..n |-> Cardinality({q \in 1..n :
                   /\ ~dominates(fitness_values[p], fitness_values[q])
                   /\ dominates(fitness_values[q], fitness_values[p])})]
        front0 == SelectSeq(Indices(n), LAMBDA p : cnt[p] = 0)
        RECURSIVE Loop(_, _, _)
        Loop(front, c, fronts) ==
            IF front = <<>> THEN fronts
            ELSE LET r == PeelFront(Concat([k \in 1..Len(front) |-> S[front[k]]]),
                                    c, <<>>)
                 IN Loop(r.next_front, r.count, Append(fronts, front))
    IN Loop(front0, cnt, <<>>)

SortStep ==
    /\ op = "none"
    /\ out' = [fronts |-> fast_nondominated_sort(fits),
               base |-> base_fast_nondominated_sort(fits)]
    /\ op' = "sort"
    /\ UNCHANGED <<fits, evalVars, nsga2Vars, moeadVars, spea2Vars,
                   trackerVars>>

SpecSort == InitFit /\ [][SortStep]_vars

\* F is a partition of the indices of fv into non-empty fronts, front 0 is
\* dominated by nobody, and each member of a later front is dominated by a
\* member of the front before it and by no member of its own or a later front.
IsFrontRanking(F, fv) ==
    /\ \A k \in DOMAIN F : F[k] /= <<>>
    /\ Len(Concat(F)) = Len(fv)
    /\ Range(Concat(F)) = DOMAIN fv
    /\ \A k \in DOMAIN F : \A x \in DOMAIN F[k] :
         LET i == F[k][x] IN
           /\ k = 1 => \A j \in DOMAIN fv : ~dominates(fv[j], fv[i])
           /\ k > 1 => \E y \in DOMAIN F[k-1] : dominates(fv[F[k-1][y]], fv[i])
           /\ \A m \in DOMAIN F : m >= k =>
                \A y \in DOMAIN F[m] : ~dominates(fv[F[m][y]], fv[i])

\* C3: fast_nondominated_sort returns a partition of the indices into
\* non-empty fronts; no member of front 0 is dominated by any individual; a
\* member of front k > 0 is dominated by some member of front k-1 and by no
\* member of front k or of a later front (both source variants).
C3_FrontsRanked ==
    op = "sort" =>
        /\ IsFrontRanking(out.fronts, fits)
        /\ IsFrontRanking(out.base, fits)

\* A chain of three fronts was produced.
C3_Witness ==
    /\ op = "sort"
    /\ Len(out.fronts) = 3
    /\ Len(out.base) = 3

(***************************************************************************)
(* NSGA-II: crowding distance.  A distance is +infinity or a fraction      *)
(* num/den in lowest terms.                                                *)
(***************************************************************************)
RECURSIVE GCD(_, _)
GCD(a, b) == IF b = 0 THEN a ELSE GCD(b, a % b)

Inf == [inf |-> TRUE, num |-> 0, den |-> 1]

Fin(n, d) ==
    LET g == GCD(Abs(n), d)
    IN [inf |-> FALSE, num |-> n \div g, den |-> d \div g]

\* x + n/d in float arithmetic with infinity absorbing.
DistAdd(x, n, d) ==
    IF x.inf THEN x
    ELSE LET t == Fin(n, d)
         IN Fin(x.num * t.den + t.num * x.den, x.den * t.den)

\* One iteration of "for obj in range(objectives)".
CrowdObjective(front, fitness_values, distances, obj) ==
    LET n == Len(front)
        key == [i \in DOMAIN fitness_values |-> fitness_values[i][obj]]
        sorted_front == SortedAsc(front, key)
        \* distances[0] = distances[-1] = inf: positions of the list as passed
        d1 == [distances EXCEPT ![1] = Inf, ![n] = Inf]
        norm == key[sorted_front[n]] - key[sorted_front[1]]
    IN IF key[sorted_front[n]] = key[sorted_front[1]] THEN d1
       ELSE [i \in 1..n |->
               IF 1 < i /\ i < n
               THEN DistAdd(d1[i], key[sorted_front[i+1]] - key[sorted_front[i-1]],
                            norm)
               ELSE d1[i]]

RECURSIVE CrowdLoop(_, _, _, _)
CrowdLoop(front, fitness_values, distances, obj) ==
    IF obj > Len(fitness_values[1]) THEN distances
    ELSE CrowdLoop(front, fitness_values,
                   CrowdObjective(front, fitness_values, distances, obj), obj + 1)

calculate_crowding_distance(front, fitness_values) ==
    IF Len(front) <= 2 THEN [i \in 1..Len(front) |-> Inf]
    ELSE CrowdLoop(front, fitness_values, [i \in 1..Len(front) |-> Fin(0, 1)], 1)

\* selection hands a front of fast_nondominated_sort to the function and
\* zips the front with the list returned.
CrowdStep ==
    /\ op = "none"
    /\ \E k \in DOMAIN fast_nondominated_sort(fits) :
         LET front == fast_nondominated_sort(fits)[k]
         IN out' = [front |-> front,
                    distances |-> calculate_crowding_distance(front, fits)]
    /\ op' = "crowd"
    /\ UNCHANGED <<fits, evalVars, nsga2Vars, moeadVars, spea2Vars,
                   trackerVars>>

SpecCrowd == InitFit /\ [][CrowdStep]_vars

\* Member i attains the minimum or the maximum of some objective in the front.
IsBoundary(front, fv, i) ==
    \E obj \in DOMAIN fv[i] :
        \/ \A x \in DOMAIN front : fv[i][obj] <= fv[front[x]][obj]
        \/ \A x \in DOMAIN front : fv[i][obj] >= fv[front[x]][obj]

\* C4: the i-th distance returned belongs to the i-th member of the front,
\* and every member that attains the minimum or the maximum of an objective
\* within the front has distance +infinity.
C4_BoundaryMembersInfinite ==
    op = "crowd" =>
        /\ Len(out.distances) = Len(out.front)
        /\ \A x \in DOMAIN out.front :
             IsBoundary(out.front, fits, out.front[x]) => out.distances[x].inf

(***************************************************************************)
(* SPEA2: strength and raw fitness.                                        *)
(***************************************************************************)
\* Mutant: the inner loop starts after i.
calculate_dominance_strength_upper(fitness_values) ==
    [i \in DOMAIN fitness_values |->
        Cardinality({j \in DOMAIN fitness_values :
            j > i /\ spea2_dominates(fitness_values[i], fitness_values[j])})]

calculate_dominance_strength(fitness_values) ==
    [i \in DOMAIN fitness_values |->
        Cardinality({j \in DOMAIN fitness_values :
            i /= j /\ spea2_dominates(fitness_values[i], fitness_values[j])})]

calculate_raw_fitness(fitness_values, strength) ==
    [i \in DOMAIN fitness_values |->
        SumSeq([j \in DOMAIN fitness_values |->
            IF i /= j /\ spea2_dominates(fitness_values[j], fitness_values[i])
            THEN strength[j] ELSE 0])]

RawFitnessStep ==
    /\ op = "none"
    /\ LET strength == calculate_dominance_strength(fits)
       IN out' = [strength |-> strength,
                  raw_fitness |-> calculate_raw_fitness(fits, strength)]
    /\ op' = "raw"
    /\ UNCHANGED <<fits, evalVars, nsga2Vars, moeadVars, spea2Vars,
                   trackerVars>>

SpecRaw == InitFit /\ [][RawFitnessStep]_vars

\* C5: an individual has raw fitness exactly 0 iff no other individual of the
\* combined set dominates it.
C5_RawZeroIffNonDominated ==
    op = "raw" =>
        \A i \in DOMAIN fits :
            (out.raw_fitness[i] = 0) <=>
                ~ \E j \in DOMAIN fits :
                      j /= i /\ spea2_dominates(fits[j], fits[i])

\* A set with a non-dominated member and a member whose dominators'
\* strengths add up to more than one.
C5_Witness ==
    /\ op = "raw"
    /\ \E i \in DOMAIN fits : out.raw_fitness[i] = 0
    /\ \E i \in DOMAIN fits : out.raw_fitness[i] >= 2

(***************************************************************************)
(* Quality indicators (metrics.py) for 2-objective fronts.  A returned     *)
(* float is kept exact in symbolic form:                                   *)
(*   [kind |-> "num", val |-> v]        the number v                       *)
(*   [kind |-> "inf", val |-> 0]        float('inf')                       *)
(*   [kind |-> "mean_sqrt", val |-> s]  sum of sqrt(s[k]) over k / Len(s)  *)
(*   [kind |-> "std_sqrt", val |-> s]   population std of the sqrt(s[k])   *)
(***************************************************************************)
Num(v) == [kind |-> "num", val |-> v]

IsZero(r) ==
    CASE r.kind = "num" -> r.val = 0
      [] r.kind = "inf" -> FALSE
      [] r.kind = "mean_sqrt" -> \A k \in DOMAIN r.val : r.val[k] = 0
      [] r.kind = "std_sqrt" -> \A k, l \in DOMAIN r.val : r.val[k] = r.val[l]

MinOf(S) == CHOOSE x \in S : \A y \in S : x <= y
MaxOf(S) == CHOOSE x \in S : \A y \in S : x >= y

\* The square of the Euclidean distance of two points.
SqDist(p, q) == SumSeq([k \in DOMAIN p |-> (p[k] - q[k]) * (p[k] - q[k])])

\* product over the dimensions of (reference_point[i] - min of dimension i)
_calculate_simple_hypervolume(points, reference_point) ==
    LET dimension_min(i) == MinOf({points[k][i] : k \in DOMAIN points})
    IN (reference_point[1] - dimension_min(1)) * (reference_point[2] - dimension_min(2))

\* Rectangle i of the loop over the points sorted by the first objective.
Rectangle2d(sorted_points, reference_point, i) ==
    LET width == IF i = 1 THEN reference_point[1] - sorted_points[i][1]
                 ELSE sorted_points[i-1][1] - sorted_points[i][1]
        height == reference_point[2] - sorted_points[i][2]
    IN IF width > 0 /\ height > 0 THEN width * height ELSE 0

_calculate_2d_hypervolume(points, reference_point) ==
    LET order == SortedAsc(Indices(Len(points)),
                           [k \in DOMAIN points |-> points[k][1]])
        sorted_points == [k \in DOMAIN points |-> points[order[k]]]
    IN SumSeq([i \in DOMAIN points |->
                  Rectangle2d(sorted_points, reference_point, i)])

calculate_hypervolume(front, reference_point) ==
    IF front = <<>> THEN Num(0)
    ELSE LET ptp(i) == MaxOf({front[k][i] : k \in DOMAIN front})
                         - MinOf({front[k][i] : k \in DOMAIN front})
             active_dimensions == {i \in 1..2 : ptp(i) > 0}
         IN IF Cardinality(active_dimensions) < 2
            THEN Num(_calculate_simple_hypervolume(front, reference_point))
            ELSE Num(_calculate_2d_hypervolume(front, reference_point))

calculate_spacing(front) ==
    IF front = <<>> \/ Len(front) < 2 THEN Num(0)
    ELSE [kind |-> "std_sqrt",
          val |-> [i \in DOMAIN front |->
                     MinOf({SqDist(front[i], front[j]) :
                               j \in (DOMAIN front) \ {i}})]]

calculate_igd(front, reference_front) ==
    IF front = <<>> \/ reference_front = <<>> THEN [kind |-> "inf", val |-> 0]
    ELSE [kind |-> "mean_sqrt",
          val |-> [r \in DOMAIN reference_front |->
                     MinOf({SqDist(reference_front[r], front[k]) :
                               k \in DOMAIN front})]]

\* A reference point worse than every point of the grid.
ReferencePoint == <<MaxFit + 1, MaxFit + 1>>

HypervolumeStep ==
    /\ op = "none"
    /\ out' = [front |-> fits, reference_front |-> <<>>,
               value |-> calculate_hypervolume(fits, ReferencePoint)]
    /\ op' = "hypervolume"
    /\ UNCHANGED <<fits, evalVars, nsga2Vars, moeadVars, spea2Vars,
                   trackerVars>>

SpacingStep ==
    /\ op = "none"
    /\ out' = [front |-> fits, reference_front |-> <<>>,
               value |-> calculate_spacing(fits)]
    /\ op' = "spacing"
    /\ UNCHANGED <<fits, evalVars, nsga2Vars, moeadVars, spea2Vars,
                   trackerVars>>

\* The input list is split into the front and the reference front.
IgdStep ==
    /\ op = "none"
    /\ \E k \in 0..Len(fits) :
         LET front == SubSeq(fits, 1, k)
             reference_front == SubSeq(fits, k + 1, Len(fits))
         IN out' = [front |-> front, reference_front |-> reference_front,
                    value |-> calculate_igd(front, reference_front)]
    /\ op' = "igd"
    /\ UNCHANGED <<fits, evalVars, nsga2Vars, moeadVars, spea2Vars,
                   trackerVars>>

SpecMetrics == InitFit /\ [][HypervolumeStep \/ SpacingStep \/ IgdStep]_vars

\* C7: calculate_hypervolume, calculate_spacing and calculate_igd return
\* exactly 0.0 whenever the front (and, for IGD, the reference front) is empty
\* or a single point.
C7_DegenerateFrontsGiveZero ==
    (/\ op \in {"hypervolume", "spacing", "igd"}
     /\ Len(out.front) <= 1
     /\ Len(out.reference_front) <= 1)
        => IsZero(out.value)

(***************************************************************************)
(* Reference data (Data_Loading.py).  The dictionaries keep their loading  *)
(* order; the instance has a shared lecturer, a shared group, a group that *)
(* fits one room only and an activity of duration 2.                       *)
(***************************************************************************)
slots == <<"MON1", "MON2", "MON3">>

RoomOrder == <<"R1", "R2">>

spaces_dict == [r \in Range(RoomOrder) |->
                  IF r = "R1" THEN [code |-> r, size |-> 40]
                  ELSE [code |-> r, size |-> 30]]

groups_dict == [g \in {"G1", "G2"} |->
                  IF g = "G1" THEN [id |-> g, size |-> 30]
                  ELSE [id |-> g, size |-> 40]]

lecturers_dict == [l \in {"T1", "T2"} |-> [id |-> l]]

ActivityOrder == <<"A1", "A2", "A3">>

\* Further activities, for instances with more activities than fit: A4, A6
\* and A7 need the large room like A2, A5 (70 students) fits no room.
ExtraOrder == <<"A4", "A5", "A6", "A7">>

activities_dict == [a \in Range(ActivityOrder) \cup Range(ExtraOrder) |->
    CASE a = "A1" -> [id |-> a, teacher_id |-> "T1",
                      group_ids |-> <<"G1">>, duration |-> 1]
      [] a = "A2" -> [id |-> a, teacher_id |-> "T1",
                      group_ids |-> <<"G2">>, duration |-> 2]
      [] a = "A3" -> [id |-> a, teacher_id |-> "T2",
                      group_ids |-> <<"G1">>, duration |-> 1]
      [] a = "A5" -> [id |-> a, teacher_id |-> "T2",
                      group_ids |-> <<"G1", "G2">>, duration |-> 1]
      [] a = "A6" -> [id |-> a, teacher_id |-> "T1",
                      group_ids |-> <<"G2">>, duration |-> 1]
      [] OTHER    -> [id |-> a, teacher_id |-> "T2",
                      group_ids |-> <<"G2">>, duration |-> 1]]

(***************************************************************************)
(* The Timetable: slot -> (room -> cell).  A cell holds None, an Activity  *)
(* object (named by its id) or a value that is not an Activity, such as an *)
(* activity id nothing defines.  A room may be missing from a slot's dict. *)
(***************************************************************************)
None == "None"
Dangling == "X9"

SlotSet == Range(slots)
RoomSet == DOMAIN spaces_dict
ActivityIds == Range(ActivityOrder)

\* Timetables whose every slot has exactly the rooms of spaces_dict.
CompleteTimetables(cells) == [SlotSet -> [RoomSet -> cells]]

\* Timetables whose slots may lack rooms.
PartialTimetables(cells) ==
    [SlotSet -> UNION {[R -> cells] : R \in SUBSET RoomSet}]

\* isinstance(activity, Activity)
_check_activity_validity(activity) ==
    activity /= None /\ activity \in ActivityIds

\* "for room in slot_data": the rooms the slot's dict holds, in order.
RoomsOf(slot_data) ==
    SelectSeq(RoomOrder, LAMBDA r : r \in DOMAIN slot_data)

\* A timetable has an entry for every (slot, room) pair.
HasEveryCell(timetable) ==
    \A s \in SlotSet : DOMAIN timetable[s] = RoomSet

\* ... and every entry is None or an Activity.
WellFormed(timetable) ==
    /\ HasEveryCell(timetable)
    /\ \A s \in SlotSet : \A r \in RoomSet :
         timetable[s][r] = None \/ _check_activity_validity(timetable[s][r])

(***************************************************************************)
(* Hard constraints (evaluate.py).                                         *)
(***************************************************************************)
\* The group-size loop of _check_room_capacity: the sizes of the activity's
\* known groups, and the groups it adds to sub_group_set.
KnownGroups(activity) ==
    SelectSeq(activities_dict[activity].group_ids,
              LAMBDA g : g \in DOMAIN groups_dict)

GroupSize(activity) ==
    SumSeq([i \in DOMAIN KnownGroups(activity) |->
              groups_dict[KnownGroups(activity)[i]].size])

\* A capacity test that also rejects an exactly full room.
_check_room_capacity_full(activity, room) ==
    IF GroupSize(activity) >= spaces_dict[room].size THEN 1 ELSE 0

_check_room_capacity(activity, room) ==
    IF GroupSize(activity) > spaces_dict[room].size THEN 1 ELSE 0

\* The state of _process_time_slot before the first room of a slot.
SlotStart(activities_set) ==
    [prof_set |-> {}, sub_group_set |-> {}, activities_set |-> activities_set,
     vacant_room_count |-> 0, prof_conflicts |-> 0,
     room_size_conflicts |-> 0, sub_group_conflicts |-> 0]

\* One room of the slot: _process_activity and the four "+=".
_process_activity(acc, slot_data, room) ==
    LET activity == slot_data[room]
    IN IF ~ _check_activity_validity(activity)
       THEN [acc EXCEPT !.vacant_room_count = @ + 1]
       ELSE LET a == activities_dict[activity]
            IN [prof_set |-> acc.prof_set \cup {a.teacher_id},
                sub_group_set |-> acc.sub_group_set \cup Range(KnownGroups(activity)),
                activities_set |-> acc.activities_set \cup {a.id},
                vacant_room_count |-> acc.vacant_room_count,
                prof_conflicts |-> acc.prof_conflicts
                    + (IF a.teacher_id \in acc.prof_set THEN 1 ELSE 0),
                room_size_conflicts |-> acc.room_size_conflicts
                    + _check_room_capacity(activity, room),
                sub_group_conflicts |-> acc.sub_group_conflicts
                    + Cardinality(Range(a.group_ids) \cap acc.sub_group_set)]

RECURSIVE ProcessRooms(_, _, _)
ProcessRooms(acc, slot_data, rooms) ==
    IF rooms = <<>> THEN acc
    ELSE ProcessRooms(_process_activity(acc, slot_data, Head(rooms)),
                      slot_data, Tail(rooms))

_process_time_slot(slot_data, activities_set) ==
    ProcessRooms(SlotStart(activities_set), slot_data, RoomsOf(slot_data))

\* "for slot in timetable": tot carries the counts and activities_set.
RECURSIVE ProcessSlots(_, _, _)
ProcessSlots(tot, timetable, ss) ==
    IF ss = <<>> THEN tot
    ELSE LET v == _process_time_slot(timetable[Head(ss)], tot.activities_set)
         IN ProcessSlots(
                [activities_set |-> v.activities_set,
                 vacant_room_count |-> tot.vacant_room_count + v.vacant_room_count,
                 prof_conflicts |-> tot.prof_conflicts + v.prof_conflicts,
                 room_size_conflicts |-> tot.room_size_conflicts + v.room_size_conflicts,
                 sub_group_conflicts |-> tot.sub_group_conflicts + v.sub_group_conflicts],
                timetable, Tail(ss))

\* Returns (vacant, lecturer, group, capacity, unassigned); it has no raise.
evaluate_hard_constraints(timetable) ==
    LET t == ProcessSlots([activities_set |-> {}, vacant_room_count |-> 0,
                           prof_conflicts |-> 0, room_size_conflicts |-> 0,
                           sub_group_conflicts |-> 0], timetable, slots)
    IN <<t.vacant_room_count, t.prof_conflicts, t.sub_group_conflicts,
         t.room_size_conflicts,
         Cardinality(ActivityIds) - Cardinality(t.activities_set)>>

(***************************************************************************)
(* Exact arithmetic for the float scores: a rational is <<num, den>> in    *)
(* lowest terms with den > 0.                                              *)
(***************************************************************************)
Rat(n, d) ==
    LET g == GCD(Abs(n), Abs(d))
        sg == IF d < 0 THEN -1 ELSE 1
    IN <<sg * (n \div g), sg * (d \div g)>>

RInt(n) == <<n, 1>>
RAdd(a, b) == Rat(a[1] * b[2] + b[1] * a[2], a[2] * b[2])
RSub(a, b) == Rat(a[1] * b[2] - b[1] * a[2], a[2] * b[2])
RMul(a, b) == Rat(a[1] * b[1], a[2] * b[2])
RDiv(a, b) == Rat(a[1] * b[2], a[2] * b[1])
RLess(a, b) == a[1] * b[2] < b[1] * a[2]
RLeq(a, b) == a[1] * b[2] <= b[1] * a[2]
RMax(a, b) == IF RLess(a, b) THEN b ELSE a

RECURSIVE RSum(_)
RSum(s) == IF s = <<>> THEN RInt(0) ELSE RAdd(Head(s), RSum(Tail(s)))

RECURSIVE RMaxSeq(_)
RMaxSeq(s) ==
    IF Len(s) = 1 THEN s[1] ELSE RMax(Head(s), RMaxSeq(Tail(s)))

\* np.mean / np.var of a non-empty list.
RMean(s) == RDiv(RSum(s), RInt(Len(s)))
RVar(s) ==
    LET mean == RMean(s)
    IN RMean([i \in DOMAIN s |->
                RMul(RSub(s[i], mean), RSub(s[i], mean))])

\* The values of a dict over a set of keys, as a list (any fixed order).
RECURSIVE SetToSeq(_)
SetToSeq(S) ==
    IF S = {} THEN <<>>
    ELSE LET x == CHOOSE y \in S : TRUE IN <<x>> \o SetToSeq(S \ {x})

Values(d) ==
    LET keys == SetToSeq(DOMAIN d) IN [i \in DOMAIN keys |-> d[keys[i]]]

(***************************************************************************)
(* Soft constraints (evaluate.py).                                         *)
(***************************************************************************)
\* A day of four periods, for schedules longer than the instance's.
long_slots == slots \o <<"MON4">>

\* The keys of a schedule in their insertion order, the calendar's.
SlotsOf(schedule) == SelectSeq(long_slots, LAMBDA s : s \in DOMAIN schedule)

\* The valid cells as <<slot, activity>>, in the order of
\* "for slot, rooms in schedule.items(): for room, activity in rooms.items()".
ScheduledCells(schedule) ==
    LET ss == SlotsOf(schedule)
    IN Concat([i \in DOMAIN ss |->
        LET rooms == RoomsOf(schedule[ss[i]])
        IN Concat([j \in DOMAIN rooms |->
               LET activity == schedule[ss[i]][rooms[j]]
               IN IF _check_activity_validity(activity)
                  THEN <<(<<ss[i], activity>>)>> ELSE <<>>])])

\* _update_group_lecture_slots; a group without lectures has the empty list.
group_lecture_slots(schedule, group_id) ==
    LET cells == SelectSeq(ScheduledCells(schedule),
                     LAMBDA c : group_id \in Range(activities_dict[c[2]].group_ids))
    IN [i \in DOMAIN cells |-> cells[i][1]]

\* _update_lecturer_data: the lecture slots ...
lecturer_lecture_slots(schedule, lecturer_id) ==
    LET cells == SelectSeq(ScheduledCells(schedule),
                     LAMBDA c : activities_dict[c[2]].teacher_id = lecturer_id)
    IN [i \in DOMAIN cells |-> cells[i][1]]

\* ... and the workload dict, which has the lecturers that teach at all.
ScheduledActivities(schedule) ==
    LET cells == ScheduledCells(schedule)
    IN [i \in DOMAIN cells |-> cells[i][2]]

lecturer_workload(schedule) ==
    LET acts == ScheduledActivities(schedule)
        teaching == {activities_dict[acts[i]].teacher_id : i \in DOMAIN acts}
    IN [l \in teaching |->
          SumSeq([i \in DOMAIN acts |->
                    IF activities_dict[acts[i]].teacher_id = l
                    THEN activities_dict[acts[i]].duration ELSE 0])]

\* slots.index(s)
SlotIndex(s) == (CHOOSE i \in DOMAIN slots : slots[i] = s) - 1

_calculate_idle_time(lecture_slots, slot_list) ==
    IF lecture_slots = <<>> THEN RInt(0)
    ELSE LET index(s) ==
                 (CHOOSE i \in DOMAIN slot_list : slot_list[i] = s) - 1
             unsorted == [i \in DOMAIN lecture_slots |->
                            index(lecture_slots[i])]
             lecture_indices ==
                 SortedAsc(unsorted, [x \in 0..Len(slot_list) |-> x])
             idle_time ==
                 SumSeq([i \in 1..(Len(lecture_indices) - 1) |->
                           lecture_indices[i + 1] - lecture_indices[i] - 1])
         IN IF Len(slot_list) > 1 THEN Rat(idle_time, Len(slot_list) - 1)
            ELSE RInt(0)

\* _compute_metrics, one dict per metric, keyed by the entities.
Fatigue(lecture_slots_dict) ==
    [e \in DOMAIN lecture_slots_dict |-> RInt(Len(lecture_slots_dict[e]))]

IdleTime(lecture_slots_dict, slot_list) ==
    [e \in DOMAIN lecture_slots_dict |->
        _calculate_idle_time(lecture_slots_dict[e], slot_list)]

LectureSpread(lecture_slots_dict) ==
    [e \in DOMAIN lecture_slots_dict |->
        RInt(Len(lecture_slots_dict[e]) * 2)]

_normalize_dict(dictionary) ==
    LET max_val == IF DOMAIN dictionary = {} THEN RInt(1)
                   ELSE RMaxSeq(Values(dictionary))
    IN [k \in DOMAIN dictionary |->
          IF max_val /= RInt(0) THEN RDiv(dictionary[k], max_val)
          ELSE RInt(0)]

_calculate_workload_balance(workload_values) ==
    IF Len(workload_values) <= 1 THEN RInt(1)
    ELSE LET mean_workload == RMean(workload_values)
         IN IF mean_workload = RInt(0) THEN RInt(1)
            ELSE RMax(RInt(0),
                      RSub(RInt(1),
                           RDiv(RVar(workload_values), mean_workload)))

evaluate_soft_constraints(schedule, slot_list) ==
    LET groups == DOMAIN groups_dict
        lecturers == DOMAIN lecturers_dict
        gl == [g \in groups |-> group_lecture_slots(schedule, g)]
        ll == [l \in lecturers |-> lecturer_lecture_slots(schedule, l)]
        score(d) == RMean(Values(_normalize_dict(d)))
        student_fatigue == score(Fatigue(gl))
        student_idle == score(IdleTime(gl, slot_list))
        student_spread == score(LectureSpread(gl))
        lecturer_fatigue == score(Fatigue(ll))
        lecturer_idle == score(IdleTime(ll, slot_list))
        lecturer_spread == score(LectureSpread(ll))
        w == lecturer_workload(schedule)
        workload_balance ==
            _calculate_workload_balance([i \in DOMAIN Values(w) |->
                                           RInt(Values(w)[i])])
        inv(x) == RSub(RInt(1), x)
        \* _calculate_weighted_score
        final_score ==
            RSum(<<RMul(student_fatigue, Rat(1, 5)),
                   RMul(inv(student_idle), Rat(1, 5)),
                   RMul(inv(student_spread), Rat(1, 5)),
                   RMul(inv(lecturer_fatigue), Rat(1, 10)),
                   RMul(inv(lecturer_idle), Rat(1, 10)),
                   RMul(inv(lecturer_spread), Rat(1, 10)),
                   RMul(workload_balance, Rat(1, 10))>>)
    IN [individual_scores |->
            <<student_fatigue, student_idle, student_spread, lecturer_fatigue,
              lecturer_idle, lecturer_spread, workload_balance>>,
        final_score |-> final_score]

(***************************************************************************)
(* The fitness of the three strategies.  A soft objective is carried as    *)
(* the integer soft * SoftScale; SoftScale is a multiple of every          *)
(* denominator the instance produces, so the scaling is exact.             *)
(***************************************************************************)
SoftScale == 32 * 27 * 25 * 7 * 11 * 13

Scaled(r) == r[1] * (SoftScale \div r[2])

\* Nsga_II_optimized.evaluator
evaluator(timetable) ==
    LET hard_violations == evaluate_hard_constraints(timetable)
        weighted_hard_score ==
            hard_violations[1] * 1 + hard_violations[2] * 100
            + hard_violations[3] * 100 + hard_violations[4] * 50
            + hard_violations[5] * 200
        soft_score == evaluate_soft_constraints(timetable, slots).final_score
    IN <<weighted_hard_score, Scaled(RSub(RInt(1), soft_score))>>

\* moead_optimized.evaluate_hard_constraints: one room of a slot.  A cell
\* that is neither None nor an Activity has no .id: AttributeError.
MoeadRoom(acc, slot_data, room_id) ==
    LET activity == slot_data[room_id]
    IN IF acc.raised THEN acc
       ELSE IF activity = None THEN [acc EXCEPT !.vacant_rooms = @ + 1]
       ELSE IF activity \notin ActivityIds THEN [acc EXCEPT !.raised = TRUE]
       ELSE LET a == activities_dict[activity]
                total_students == GroupSize(activity)
            IN [acc EXCEPT
                  !.assigned_activities = @ \cup {a.id},
                  !.lecturer_conflicts =
                      @ + (IF a.teacher_id \in acc.lecturers_used THEN 1 ELSE 0),
                  !.lecturers_used = @ \cup {a.teacher_id},
                  !.student_conflicts =
                      @ + Cardinality(Range(a.group_ids) \cap acc.groups_used),
                  !.groups_used = @ \cup Range(a.group_ids),
                  !.capacity_violations =
                      @ + (IF /\ room_id \in DOMAIN spaces_dict
                              /\ total_students > spaces_dict[room_id].size
                           THEN 1 ELSE 0)]

RECURSIVE MoeadRooms(_, _, _)
MoeadRooms(acc, slot_data, rooms) ==
    IF rooms = <<>> THEN acc
    ELSE MoeadRooms(MoeadRoom(acc, slot_data, Head(rooms)),
                    slot_data, Tail(rooms))

\* "for slot in slots": lecturers_used and groups_used restart in each slot.
RECURSIVE MoeadSlots(_, _, _)
MoeadSlots(acc, timetable, ss) ==
    IF ss = <<>> THEN acc
    ELSE IF Head(ss) \notin DOMAIN timetable
         THEN MoeadSlots(acc, timetable, Tail(ss))
    ELSE MoeadSlots(
             MoeadRooms([acc EXCEPT !.lecturers_used = {}, !.groups_used = {}],
                        timetable[Head(ss)], RoomsOf(timetable[Head(ss)])),
             timetable, Tail(ss))

moead_evaluate_hard_constraints(timetable) ==
    LET t == MoeadSlots([raised |-> FALSE, vacant_rooms |-> 0,
                         lecturer_conflicts |-> 0, student_conflicts |-> 0,
                         capacity_violations |-> 0, assigned_activities |-> {},
                         lecturers_used |-> {}, groups_used |-> {}],
                        timetable, slots)
        unassigned_activities ==
            Cardinality(ActivityIds \ t.assigned_activities)
        detailed_violations ==
            <<t.vacant_rooms, t.lecturer_conflicts, t.student_conflicts,
              t.capacity_violations, unassigned_activities>>
    IN [raised |-> t.raised,
        total_violations |-> SumSeq(detailed_violations),
        detailed_violations |-> detailed_violations]

\* moead_optimized.evaluate_soft_constraints: the placeholder 0.5.
moead_evaluate_soft_constraints == Scaled(Rat(1, 2))

\* moead_optimized.evaluate_solution: the fitness part of the result.
evaluate_solution(timetable) ==
    <<moead_evaluate_hard_constraints(timetable).total_violations,
      moead_evaluate_soft_constraints>>

\* spea2.evaluate_individual as evaluate_population_fitness calls it, without
\* an evaluator: random.randint(0, 100) and random.uniform(0, 1).  The model
\* draws from the ends of the two ranges.
RandHard == {0, 100}
RandSoft == {Scaled(RInt(0)), Scaled(RInt(1))}
evaluate_individual(individual) == RandHard \X RandSoft

(***************************************************************************)
(* Evaluating one timetable, up to twice by the same evaluator.            *)
(***************************************************************************)
MaxBroken == 1   \* cells of the evaluated timetable that may be malformed

CellValues == ActivityIds \cup {None}

\* The (slot, room) pairs with no entry, or an entry that is neither None
\* nor an Activity.
BrokenCells(timetable) ==
    {c \in SlotSet \X RoomSet :
        \/ c[2] \notin DOMAIN timetable[c[1]]
        \/ timetable[c[1]][c[2]] \notin CellValues}

\* The evaluated timetable is any well-formed one ...
InitEval ==
    /\ tt \in CompleteTimetables(CellValues)
    /\ evals = <<>>
    /\ rngDraws = 0
    /\ IdleFit
    /\ IdleNsga2
    /\ IdleMoead
    /\ IdleSpea2
    /\ IdleTracker

\* ... or one with up to MaxBroken malformed cells.
InitBroken ==
    /\ tt \in {t \in PartialTimetables(CellValues \cup {Dangling}) :
                 Cardinality(BrokenCells(t)) <= MaxBroken}
    /\ evals = <<>>
    /\ rngDraws = 0
    /\ IdleFit
    /\ IdleNsga2
    /\ IdleMoead
    /\ IdleSpea2
    /\ IdleTracker

CanEvaluate(strategy) ==
    \/ evals = <<>>
    \/ Len(evals) = 1 /\ evals[1].strategy = strategy

Evaluated(strategy, raised, fitness) ==
    evals' = Append(evals, [strategy |-> strategy, raised |-> raised,
                            fitness |-> fitness])

EvaluateHard ==
    /\ CanEvaluate("hard")
    /\ Evaluated("hard", FALSE, evaluate_hard_constraints(tt))
    /\ UNCHANGED <<tt, rngDraws, fitVars, nsga2Vars, moeadVars, spea2Vars,
                   trackerVars>>

EvaluateNsga2 ==
    /\ CanEvaluate("nsga2")
    /\ Evaluated("nsga2", FALSE, evaluator(tt))
    /\ UNCHANGED <<tt, rngDraws, fitVars, nsga2Vars, moeadVars, spea2Vars,
                   trackerVars>>

EvaluateMoead ==
    /\ CanEvaluate("moead")
    /\ Evaluated("moead", moead_evaluate_hard_constraints(tt).raised,
                 evaluate_solution(tt))
    /\ UNCHANGED <<tt, rngDraws, fitVars, nsga2Vars, moeadVars, spea2Vars,
                   trackerVars>>

EvaluateSpea2 ==
    /\ CanEvaluate("spea2")
    /\ \E fitness \in evaluate_individual(tt) :
         Evaluated("spea2", FALSE, fitness)
    /\ rngDraws' = rngDraws + 2
    /\ UNCHANGED <<tt, fitVars, nsga2Vars, moeadVars, spea2Vars,
                   trackerVars>>

SpecEval ==
    InitEval /\ [][EvaluateNsga2 \/ EvaluateMoead \/ EvaluateSpea2]_vars

SpecBroken == InitBroken /\ [][EvaluateHard \/ EvaluateMoead]_vars

\* C8: given a timetable with a missing (slot, room) cell, or a cell that is
\* neither empty nor a valid activity, the evaluator fails with an error and
\* returns no counts.
C8_EvaluatorFailsFast ==
    \A i \in DOMAIN evals :
        (evals[i].strategy = "hard" /\ BrokenCells(tt) /= {})
            => evals[i].raised

\* C9: evaluating a timetable is deterministic and changes no state: two
\* evaluations of the same timetable by the same strategy give the same
\* fitness, and the random generator is not advanced.
C9_EvaluationDeterministic ==
    /\ rngDraws = 0
    /\ \A i \in DOMAIN evals : \A j \in DOMAIN evals :
         evals[i].strategy = evals[j].strategy
             => evals[i].fitness = evals[j].fitness

\* Every soft score has a denominator that divides SoftScale.
ScalingExact ==
    \A i \in DOMAIN evals :
        evals[i].strategy = "nsga2" =>
            LET r == evaluate_soft_constraints(tt, slots).final_score
            IN SoftScale % r[2] = 0 /\ RLeq(RInt(0), r) /\ RLeq(r, RInt(1))

(***************************************************************************)
(* NSGA-II operators (Nsga_II_optimized.py).  A random choice is a set of  *)
(* outcomes; a population member is always an own deep copy, so a          *)
(* timetable value stands for the object.                                  *)
(***************************************************************************)
get_classsize(activity) == GroupSize(activity)

\* The activities a slot's dict holds ("is not None").
Placed(slot_data) ==
    {slot_data[r] : r \in {q \in DOMAIN slot_data : slot_data[q] /= None}}

check_activity_conflicts(activity, slot, timetable) ==
    LET here == Placed(timetable[slot])
        lecturer_available ==
            activities_dict[activity].teacher_id
                \notin {activities_dict[a].teacher_id : a \in here}
        current_groups ==
            UNION {Range(activities_dict[a].group_ids) : a \in here}
        groups_available ==
            \A g \in Range(activities_dict[activity].group_ids) :
                g \notin current_groups
    IN lecturer_available /\ groups_available

\* A room search that takes every empty room, whatever its size.
find_suitable_rooms_any_size(activity, slot, timetable) ==
    SelectSeq(RoomOrder,
        LAMBDA room_id :
            \/ room_id \notin DOMAIN timetable[slot]
            \/ timetable[slot][room_id] = None)

find_suitable_rooms(activity, slot, timetable) ==
    SelectSeq(RoomOrder,
        LAMBDA room_id :
            /\ spaces_dict[room_id].size >= get_classsize(activity)
            /\ \/ room_id \notin DOMAIN timetable[slot]
               \/ timetable[slot][room_id] = None)

\* timetable[slot][room] = value
Put(timetable, slot, room, value) ==
    [timetable EXCEPT ![slot] =
        [r \in DOMAIN @ \cup {room} |-> IF r = room THEN value ELSE @[r]]]

\* unassigned_activities.sort(key=(len(group_ids), duration), reverse=True):
\* stable, larger keys first.
PlacementOrder(activity_list) ==
    SortedAsc(activity_list,
        [a \in DOMAIN activities_dict |->
            0 - (Len(activities_dict[a].group_ids) * 100
                 + activities_dict[a].duration)])

\* The conflict count of the second placement attempt.
PlacementConflicts(activity, slot, timetable) ==
    LET acts == SetToSeq(DOMAIN timetable[slot])
        per(act) ==
            IF act = None THEN 0
            ELSE (IF activities_dict[act].teacher_id
                       = activities_dict[activity].teacher_id THEN 1 ELSE 0)
                 + Cardinality({i \in DOMAIN activities_dict[act].group_ids :
                        activities_dict[act].group_ids[i]
                            \in Range(activities_dict[activity].group_ids)})
    IN SumSeq([i \in DOMAIN acts |-> per(timetable[slot][acts[i]])])

\* Where one activity of the initializer can land: the <<slot, room>> pairs.
PlaceOptions(activity, timetable) ==
    LET rooms(s) == Range(find_suitable_rooms(activity, s, timetable))
        feasible_slots ==
            {s \in SlotSet : check_activity_conflicts(activity, s, timetable)}
        first == {c \in SlotSet \X RoomSet :
                    c[1] \in feasible_slots /\ c[2] \in rooms(c[1])}
        roomy == {s \in SlotSet : rooms(s) /= {}}
        best_slots ==
            {s \in roomy : \A o \in roomy :
                PlacementConflicts(activity, s, timetable)
                    <= PlacementConflicts(activity, o, timetable)}
    IN IF first /= {} THEN first
       ELSE {c \in SlotSet \X RoomSet :
                c[1] \in best_slots /\ c[2] \in rooms(c[1])}

PlaceOne(activity, timetable) ==
    LET options == PlaceOptions(activity, timetable)
    IN IF options = {} THEN {timetable}
       ELSE {Put(timetable, c[1], c[2], activity) : c \in options}

RECURSIVE PlaceAll(_, _)
PlaceAll(timetables, activities) ==
    IF activities = <<>> THEN timetables
    ELSE PlaceAll(UNION {PlaceOne(Head(activities), t) : t \in timetables},
                  Tail(activities))

\* A mutation of the initializer's last loop that initializes no room.
FillVacantSkipped(timetable) == timetable

\* "Ensure all rooms are initialized": missing rooms become None.
FillVacant(timetable) ==
    [s \in SlotSet |->
        [r \in DOMAIN timetable[s] \cup RoomSet |->
            IF r \in DOMAIN timetable[s] THEN timetable[s][r] ELSE None]]

\* The timetables one iteration of generate_initial_population can build.
InitialTimetables ==
    {FillVacant(t) :
        t \in PlaceAll({[s \in SlotSet |-> [r \in {} |-> None]]},
                       PlacementOrder(ActivityOrder))}

\* find_violations, one room of a slot: acc has the violations list and the
\* lecturer_seen and group_seen dicts.
RECURSIVE ViolationGroups(_, _, _, _)
ViolationGroups(acc, slot, room, group_ids) ==
    IF group_ids = <<>> THEN acc
    ELSE LET g == Head(group_ids)
             next ==
                 IF g \in DOMAIN acc.group_seen
                 THEN [acc EXCEPT !.violations =
                          @ \o <<<<slot, room>>, <<slot, acc.group_seen[g]>>>>]
                 ELSE [acc EXCEPT !.group_seen = (g :> room) @@ @]
         IN ViolationGroups(next, slot, room, Tail(group_ids))

ViolationRoom(acc, timetable, slot, room) ==
    LET activity == timetable[slot][room]
    IN IF activity = None THEN acc
       ELSE LET t == activities_dict[activity].teacher_id
                a1 == IF t \in DOMAIN acc.lecturer_seen
                      THEN [acc EXCEPT !.violations =
                               @ \o <<<<slot, room>>,
                                      <<slot, acc.lecturer_seen[t]>>>>]
                      ELSE [acc EXCEPT !.lecturer_seen = (t :> room) @@ @]
                a2 == ViolationGroups(a1, slot, room,
                                      activities_dict[activity].group_ids)
            IN IF get_classsize(activity) > spaces_dict[room].size
               THEN [a2 EXCEPT !.violations = @ \o <<<<slot, room>>>>]
               ELSE a2

RECURSIVE ViolationRooms(_, _, _, _)
ViolationRooms(acc, timetable, slot, rooms) ==
    IF rooms = <<>> THEN acc
    ELSE ViolationRooms(ViolationRoom(acc, timetable, slot, Head(rooms)),
                        timetable, slot, Tail(rooms))

\* The (slot, room) cells of the unique_violations list; the activity of a
\* tuple is the one the cell holds.
find_violations(timetable) ==
    UNION {Range(ViolationRooms(
                     [violations |-> <<>>,
                      lecturer_seen |-> [x \in {} |-> None],
                      group_seen |-> [x \in {} |-> None]],
                     timetable, s, RoomsOf(timetable[s])).violations)
           : s \in SlotSet}

\* timetable[s1][r1], timetable[s2][r2] = timetable[s2][r2], timetable[s1][r1]
Swap(timetable, s1, r1, s2, r2) ==
    Put(Put(timetable, s1, r1, timetable[s2][r2]), s2, r2, timetable[s1][r1])

random_mutation(individual) ==
    LET non_empty_slots == {s \in SlotSet : Placed(individual[s]) /= {}}
    IN IF Cardinality(non_empty_slots) < 2 THEN {individual}
       ELSE {Swap(individual, s1, r1, s2, r2) :
               <<s1, r1, s2, r2>> \in
                 {c \in SlotSet \X RoomSet \X SlotSet \X RoomSet :
                    /\ c[1] \in non_empty_slots /\ c[3] \in non_empty_slots
                    /\ c[1] /= c[3]
                    /\ c[2] \in DOMAIN individual[c[1]]
                    /\ c[4] \in DOMAIN individual[c[3]]}}

\* What repair_mutation can return once it has picked the violation at
\* (slot, room).
RepairOne(timetable, slot, room) ==
    LET activity == timetable[slot][room]
        target_slots == SlotSet \ {slot}
        moves ==
            {c \in target_slots \X RoomSet :
                /\ check_activity_conflicts(activity, c[1], timetable)
                /\ c[2] \in Range(find_suitable_rooms(activity, c[1], timetable))}
        rooms_in_target(ts) ==
            {r \in DOMAIN timetable[ts] : timetable[ts][r] /= None}
    IN IF moves /= {}
       THEN {Put(Put(timetable, slot, room, None), c[1], c[2], activity) :
               c \in moves}
       ELSE UNION {IF rooms_in_target(ts) = {} THEN {timetable}
                   ELSE {Swap(timetable, slot, room, ts, tr) :
                           tr \in rooms_in_target(ts)}
                   : ts \in target_slots}

repair_mutation(individual) ==
    LET violations == find_violations(individual)
    IN IF violations = {} THEN random_mutation(individual)
       ELSE UNION {RepairOne(individual, v[1], v[2]) : v \in violations}

\* Mutant: only child1 takes slots of the other parent.
crossover_first_child(parent1, parent2) ==
    LET slot_list == SlotsOf(parent1)
        index(s) == (CHOOSE i \in DOMAIN slot_list : slot_list[i] = s) - 1
    IN {<<[s \in DOMAIN parent1 |-> IF index(s) >= crossover_point
                                    THEN parent2[s] ELSE parent1[s]],
          parent2>>
        : crossover_point \in 1..(Len(slot_list) - 1)}

\* The <<child1, child2>> pairs of the crossover points 1..len(slot_list)-1.
crossover(parent1, parent2) ==
    LET slot_list == SlotsOf(parent1)
        index(s) == (CHOOSE i \in DOMAIN slot_list : slot_list[i] = s) - 1
    IN {<<[s \in DOMAIN parent1 |-> IF index(s) >= crossover_point
                                    THEN parent2[s] ELSE parent1[s]],
          [s \in DOMAIN parent1 |-> IF index(s) >= crossover_point
                                    THEN parent1[s] ELSE parent2[s]]>>
        : crossover_point \in 1..(Len(slot_list) - 1)}

(***************************************************************************)
(* The NSGA-II population under its operators.  The model population has   *)
(* POPULATION_SIZE = 2 members (50 in the source), and the children of a   *)
(* create_offspring iteration stand in their parents' places, as when      *)
(* selection keeps them.                                                   *)
(***************************************************************************)
POPULATION_SIZE == 2

InitNsga2 ==
    /\ IdleNsga2
    /\ IdleFit
    /\ IdleEval
    /\ IdleMoead
    /\ IdleSpea2
    /\ IdleTracker

GenerateInitialPopulation ==
    /\ population = <<>>
    /\ population' \in [1..POPULATION_SIZE -> InitialTimetables]
    /\ UNCHANGED <<initVars, fitVars, evalVars, moeadVars, spea2Vars,
                   trackerVars>>

Crossover ==
    /\ population /= <<>>
    /\ \E p1 \in DOMAIN population, p2 \in DOMAIN population :
         \E children \in crossover(population[p1], population[p2]) :
            population' = [population EXCEPT ![p1] = children[1],
                                             ![p2] = children[2]]
    /\ UNCHANGED <<initVars, fitVars, evalVars, moeadVars, spea2Vars,
                   trackerVars>>

RepairMutation ==
    /\ population /= <<>>
    /\ \E i \in DOMAIN population :
         \E child \in repair_mutation(population[i]) :
            population' = [population EXCEPT ![i] = child]
    /\ UNCHANGED <<initVars, fitVars, evalVars, moeadVars, spea2Vars,
                   trackerVars>>

RandomMutation ==
    /\ population /= <<>>
    /\ \E i \in DOMAIN population :
         \E child \in random_mutation(population[i]) :
            population' = [population EXCEPT ![i] = child]
    /\ UNCHANGED <<initVars, fitVars, evalVars, moeadVars, spea2Vars,
                   trackerVars>>

SpecNsga2 ==
    InitNsga2 /\ [][GenerateInitialPopulation \/ Crossover \/ RepairMutation
                    \/ RandomMutation]_vars

\* C1: after any sequence of initialization, crossover and mutation steps,
\* every timetable of the population has an entry, None or one activity, for
\* every (slot, room) pair; no cell is missing.
C1_NoMissingCell ==
    \A i \in DOMAIN population : WellFormed(population[i])

\* A member that crossover gave a second copy of an activity, with a lecturer
\* conflict, and that has no cell missing.
C1_Witness ==
    /\ population /= <<>>
    /\ evaluate_hard_constraints(population[1])[2] > 0
    /\ evaluate_hard_constraints(population[1])[5] > 0
    /\ WellFormed(population[1])

(***************************************************************************)
(* MOEA/D (moead_optimized.py).  Its timetables are dicts of dicts that    *)
(* the loop copies shallowly and mutates in place, so the slot dicts live  *)
(* in a heap: a timetable object is slot -> reference, and heap[ref] is    *)
(* the dict room -> cell.  The outer dict of a timetable is never written  *)
(* after it is built, so it is carried as a value.                         *)
(***************************************************************************)
\* run_moead(population_size=50, num_generations=100, weight_vectors=None,
\* neighborhood_size=20, ...), scaled down.
population_size == 3
num_generations == 2
neighborhood_size == 2

\* Positive weights that sum to 1, in quarters.
weight_vectors == <<<<1, 3>>, <<2, 2>>, <<3, 1>>>>

\* generate_neighborhoods: the first neighborhood_size indices by distance
\* of the weight vectors, the subproblem itself first.
neighborhoods ==
    [i \in 1..population_size |->
        LET sorted_indices ==
                SortedAsc(Indices(population_size),
                    [j \in 1..population_size |->
                        (weight_vectors[i][1] - weight_vectors[j][1])
                            * (weight_vectors[i][1] - weight_vectors[j][1])
                        + (weight_vectors[i][2] - weight_vectors[j][2])
                            * (weight_vectors[i][2] - weight_vectors[j][2])])
        IN SubSeq(sorted_indices, 1,
                  IF neighborhood_size < population_size
                  THEN neighborhood_size ELSE population_size)]

\* The orders random.shuffle(all_slots) leaves the slots in.  The module
\* seeds its generator, so a run sees one order per call; the model follows
\* the calendar order.
ShuffledSlots == {slots}

moead_find_suitable_rooms(activity, slot, timetable) ==
    find_suitable_rooms(activity, slot, timetable)

\* One activity of generate_initial_population: the first slot of the
\* shuffled order with a suitable room, and any of its suitable rooms.
MoeadPlaceOne(activity, timetable) ==
    UNION {LET roomy == SelectSeq(all_slots, LAMBDA s :
                   moead_find_suitable_rooms(activity, s, timetable) /= <<>>)
           IN IF roomy = <<>> THEN {timetable}
              ELSE {Put(timetable, roomy[1], selected_room, activity) :
                      selected_room \in Range(moead_find_suitable_rooms(
                                                activity, roomy[1], timetable))}
           : all_slots \in ShuffledSlots}

RECURSIVE MoeadPlaceAll(_, _)
MoeadPlaceAll(timetables, activity_list) ==
    IF activity_list = <<>> THEN timetables
    ELSE MoeadPlaceAll(
             UNION {MoeadPlaceOne(Head(activity_list), t) : t \in timetables},
             Tail(activity_list))

MoeadInitialTimetables ==
    {FillVacant(t) :
        t \in MoeadPlaceAll({[s \in SlotSet |-> [r \in {} |-> None]]},
                            ActivityOrder)}

\* The timetable a timetable object stands for.
Deref(timetable, h) == [s \in SlotSet |-> h[timetable[s]]]

\* The object of slot dicts appended to the heap from position base + 1.
Fresh(base) == [s \in SlotSet |-> base + SlotIndex(s) + 1]

\* crossover(parent1, parent2) at one crossover point: both children get
\* fresh dicts, "parent[slot].copy()".
moead_crossover(parent1, parent2, h, crossover_point) ==
    LET from1(s) == IF SlotIndex(s) < crossover_point
                    THEN h[parent1[s]] ELSE h[parent2[s]]
        from2(s) == IF SlotIndex(s) < crossover_point
                    THEN h[parent2[s]] ELSE h[parent1[s]]
    IN [heap |-> h \o [k \in DOMAIN slots |-> from1(slots[k])]
                   \o [k \in DOMAIN slots |-> from2(slots[k])],
        child1 |-> Fresh(Len(h)),
        child2 |-> Fresh(Len(h) + Len(slots))]

\* mutate(timetable): the heaps the in-place swap can leave behind.
moead_mutate(timetable, h) ==
    UNION {LET ref1 == timetable[c[1]]
               ref2 == timetable[c[2]]
               non_empty_rooms1 == {r \in DOMAIN h[ref1] : h[ref1][r] /= None}
               non_empty_rooms2 == {r \in DOMAIN h[ref2] : h[ref2][r] /= None}
           IN IF non_empty_rooms1 = {} \/ non_empty_rooms2 = {} THEN {h}
              ELSE {[h EXCEPT ![ref1][room1] = h[ref2][room2],
                              ![ref2][room2] = h[ref1][room1]]
                    : room1 \in non_empty_rooms1, room2 \in non_empty_rooms2}
           : c \in {d \in SlotSet \X SlotSet : d[1] /= d[2]}}

\* The two loops of update_ideal_point: new_ideal[i] = min(new_ideal[i], val).
RECURSIVE IdealLoop(_, _)
IdealLoop(fitness_list, new_ideal) ==
    IF fitness_list = <<>> THEN new_ideal
    ELSE IdealLoop(
             Tail(fitness_list),
             [i \in DOMAIN new_ideal |->
                 IF new_ideal[i].inf \/ Head(fitness_list)[i] < new_ideal[i].num
                 THEN Fin(Head(fitness_list)[i], 1) ELSE new_ideal[i]])

\* An update that keeps, for each objective, the last value evaluated.
update_ideal_point_last(fitness_list, ideal) ==
    IF fitness_list = <<>> THEN ideal
    ELSE [i \in DOMAIN ideal |-> Fin(fitness_list[Len(fitness_list)][i], 1)]

update_ideal_point(fitness_list, ideal) == IdealLoop(fitness_list, ideal)

\* The Tchebycheff value max(weight * |fitness - ideal|), in units of
\* 1 / (4 * SoftScale); the hard objective is not scaled, the soft one is.
scalarizing_function(fitness, weight_vector, ideal) ==
    MaxOf({weight_vector[1] * Abs(fitness[1] - ideal[1].num) * SoftScale,
           weight_vector[2] * Abs(fitness[2] - ideal[2].num)})

\* Mutant: a tie replaces the neighbour too.
is_better_or_equal(new_scalar, current_scalar) == new_scalar <= current_scalar

\* "if new_scalar < current_scalar"
is_better(new_scalar, current_scalar) == new_scalar < current_scalar

\* "for neighbor_idx in neighborhoods[i]" for one new solution: st has the
\* population and the stored fitness.
RECURSIVE ReplaceNeighbors(_, _, _, _, _)
ReplaceNeighbors(st, new_solution, new_fitness, ideal, neighborhood) ==
    IF neighborhood = <<>> THEN st
    ELSE LET neighbor_idx == Head(neighborhood)
             current_scalar ==
                 scalarizing_function(st.fitness_values[neighbor_idx],
                                      weight_vectors[neighbor_idx], ideal)
             new_scalar ==
                 scalarizing_function(new_fitness,
                                      weight_vectors[neighbor_idx], ideal)
             next ==
                 IF is_better(new_scalar, current_scalar)
                 THEN [population |->
                          [st.population EXCEPT ![neighbor_idx] = new_solution],
                       fitness_values |->
                          [st.fitness_values EXCEPT ![neighbor_idx] = new_fitness]]
                 ELSE st
         IN ReplaceNeighbors(next, new_solution, new_fitness, ideal,
                             Tail(neighborhood))

\* "for j, new_eval in enumerate(new_evaluations)"
RECURSIVE UpdateNeighbors(_, _, _, _, _)
UpdateNeighbors(st, solutions, new_fitness, ideal, neighborhood) ==
    IF solutions = <<>> THEN st
    ELSE UpdateNeighbors(
             ReplaceNeighbors(st, Head(solutions), Head(new_fitness), ideal,
                              neighborhood),
             Tail(solutions), Tail(new_fitness), ideal, neighborhood)

\* The references a population holds, each once, in order of first use.
RECURSIVE Dedup(_)
Dedup(s) ==
    IF s = <<>> THEN <<>>
    ELSE LET front == Dedup(SubSeq(s, 1, Len(s) - 1))
         IN IF s[Len(s)] \in Range(front) THEN front
            ELSE Append(front, s[Len(s)])

LiveRefs(pop) ==
    Dedup(Concat([i \in DOMAIN pop |->
                    [k \in DOMAIN slots |-> pop[i][slots[k]]]]))

\* Dicts no member refers to are garbage; the live ones are renumbered.
Collected(pop, h) ==
    LET live == LiveRefs(pop)
        renumber(ref) == CHOOSE k \in DOMAIN live : live[k] = ref
    IN [heap |-> [k \in DOMAIN live |-> h[live[k]]],
        population |-> [i \in DOMAIN pop |->
                          [s \in SlotSet |-> renumber(pop[i][s])]]]

(***************************************************************************)
(* run_moead.  Init is the state at the top of the main loop: the initial  *)
(* population is built, evaluated, and has set the ideal point.  One       *)
(* subproblem is produce -> mutate1 -> mutate2 -> update.                  *)
(***************************************************************************)
InitMoead ==
    /\ \E initial \in [1..population_size -> MoeadInitialTimetables] :
         LET evaluations == [i \in 1..population_size |->
                               evaluate_solution(initial[i])]
         IN /\ heap = Concat([i \in 1..population_size |->
                                [k \in DOMAIN slots |-> initial[i][slots[k]]]])
            /\ moead_population = [i \in 1..population_size |->
                                     Fresh((i - 1) * Len(slots))]
            /\ moead_fitness = evaluations
            /\ moead_ideal = update_ideal_point(evaluations, <<Inf, Inf>>)
            /\ evaluated = Range(evaluations)
    /\ new_solutions = <<>>
    /\ pc = "produce"
    /\ sub = 1
    /\ generation = 1
    /\ IdleFit
    /\ IdleEval
    /\ IdleNsga2
    /\ IdleSpea2
    /\ IdleTracker

\* select_parents: random.sample(neighborhood, 2), as positions.
ParentPairs ==
    {p \in (DOMAIN neighborhoods[sub]) \X (DOMAIN neighborhoods[sub]) :
        p[1] /= p[2]}

\* random.random() < CROSSOVER_RATE: child1, child2 = crossover(...)
MoeadCrossover ==
    /\ pc = "produce"
    /\ \E p \in ParentPairs, crossover_point \in 1..(Len(slots) - 1) :
         LET parent1 == moead_population[neighborhoods[sub][p[1]]]
             parent2 == moead_population[neighborhoods[sub][p[2]]]
             c == moead_crossover(parent1, parent2, heap, crossover_point)
         IN /\ heap' = c.heap
            /\ new_solutions' = <<c.child1, c.child2>>
    /\ pc' = "mutate1"
    /\ UNCHANGED <<moead_population, moead_fitness, moead_ideal, evaluated,
                   sub, generation, fitVars, evalVars, nsga2Vars, spea2Vars,
                   trackerVars>>

\* else: child1, child2 = parent1.copy(), parent2.copy().  dict.copy() is
\* shallow: the children hold their parents' slot dicts.
MoeadCopy ==
    /\ pc = "produce"
    /\ \E p \in ParentPairs :
         new_solutions' = <<moead_population[neighborhoods[sub][p[1]]],
                            moead_population[neighborhoods[sub][p[2]]]>>
    /\ pc' = "mutate1"
    /\ UNCHANGED <<heap, moead_population, moead_fitness, moead_ideal,
                   evaluated, sub, generation, fitVars, evalVars, nsga2Vars,
                   spea2Vars, trackerVars>>

\* random.random() < MUTATION_RATE: child = mutate(child), in place.
MoeadMutate ==
    /\ pc \in {"mutate1", "mutate2"}
    /\ heap' \in moead_mutate(
                    new_solutions[IF pc = "mutate1" THEN 1 ELSE 2], heap)
    /\ pc' = IF pc = "mutate1" THEN "mutate2" ELSE "update"
    /\ UNCHANGED <<moead_population, moead_fitness, moead_ideal, evaluated,
                   new_solutions, sub, generation, fitVars, evalVars,
                   nsga2Vars, spea2Vars, trackerVars>>

\* ... or the child is left as it is.
MoeadNoMutation ==
    /\ pc \in {"mutate1", "mutate2"}
    /\ pc' = IF pc = "mutate1" THEN "mutate2" ELSE "update"
    /\ UNCHANGED <<heap, moead_population, moead_fitness, moead_ideal,
                   evaluated, new_solutions, sub, generation, fitVars,
                   evalVars, nsga2Vars, spea2Vars, trackerVars>>

\* Evaluate the new solutions, update the ideal point, replace neighbours,
\* and move to the next subproblem, generation, or the end of the loop.
MoeadUpdate ==
    /\ pc = "update"
    /\ \E new_fitness \in {[j \in DOMAIN new_solutions |->
                             evaluate_solution(Deref(new_solutions[j], heap))]} :
       \E ideal \in {update_ideal_point(new_fitness, moead_ideal)} :
       \E st \in {UpdateNeighbors(
                     [population |-> moead_population,
                      fitness_values |-> moead_fitness],
                     new_solutions, new_fitness, ideal, neighborhoods[sub])} :
       \E kept \in {Collected(st.population, heap)} :
          /\ moead_ideal' = ideal
          /\ evaluated' = evaluated \cup Range(new_fitness)
          /\ moead_fitness' = st.fitness_values
          /\ moead_population' = kept.population
          /\ heap' = kept.heap
    /\ new_solutions' = <<>>
    /\ IF sub < population_size
       THEN sub' = sub + 1 /\ UNCHANGED generation /\ pc' = "produce"
       ELSE /\ sub' = 1
            /\ generation' = generation + 1
            /\ pc' = IF generation < num_generations THEN "produce" ELSE "done"
    /\ UNCHANGED <<fitVars, evalVars, nsga2Vars, spea2Vars, trackerVars>>

SpecMoead ==
    InitMoead /\ [][MoeadCrossover \/ MoeadCopy \/ MoeadMutate
                    \/ MoeadNoMutation \/ MoeadUpdate]_vars

\* The cell contents of every member of the population.
PopulationCells ==
    [i \in DOMAIN moead_population |-> Deref(moead_population[i], heap)]

IdealIsMinimum ==
    pc /= "idle" =>
        \A k \in DOMAIN moead_ideal :
            /\ ~ moead_ideal[k].inf
            /\ moead_ideal[k].num = MinOf({f[k] : f \in evaluated})

IdealNotIncreased ==
    \A k \in DOMAIN moead_ideal : moead_ideal'[k].num <= moead_ideal[k].num

\* C6: during a MOEA/D run no component of the ideal point ever increases,
\* and the ideal point is the component-wise minimum of all fitness vectors
\* evaluated so far.
C6_IdealPointNonIncreasing ==
    [](IdealIsMinimum) /\ [][IdealNotIncreased]_vars

\* A generation is over and the ideal point is below a fitness evaluated
\* earlier.
C6_Witness ==
    /\ generation > 1
    /\ \E f \in evaluated : moead_ideal[1].num < f[1]
    /\ \E i \in DOMAIN moead_fitness : moead_fitness[i][1] = moead_ideal[1].num

\* While the children of a subproblem are produced and mutated, the cells of
\* the members stay as they are.
MembersUnchanged ==
    pc \in {"produce", "mutate1", "mutate2"}
        => PopulationCells' = PopulationCells

\* C10: producing an offspring, with or without crossover, and mutating it
\* changes no cell of any timetable that is a member of the population.
C10_OffspringLeavesMembersUnchanged == [][MembersUnchanged]_vars

(***************************************************************************)
(* The solution a driver returns from its final population or archive.     *)
(***************************************************************************)
\* Nsga_II_optimized.find_best_solution: the first member with the smallest
\* sum of the five raw counts of evaluate_hard_constraints.
find_best_solution(members) ==
    LET RECURSIVE FindBestLoop(_, _, _)
        FindBestLoop(i, best_solution, minimum_violations) ==
            IF i > Len(members) THEN best_solution
            ELSE LET violations ==
                         SumSeq(evaluate_hard_constraints(members[i]))
                 IN IF best_solution = 0 \/ violations < minimum_violations
                    THEN FindBestLoop(i + 1, i, violations)
                    ELSE FindBestLoop(i + 1, best_solution,
                                      minimum_violations)
    IN FindBestLoop(1, 0, 0)

\* run_moead: min(range(len(fitness_values)), key=lambda i:
\* fitness_values[i][0]), the first index with the smallest first objective.
moead_best_idx(fitness_list) ==
    CHOOSE i \in DOMAIN fitness_list :
        /\ \A j \in DOMAIN fitness_list :
              fitness_list[i][1] <= fitness_list[j][1]
        /\ \A j \in 1..(i - 1) : fitness_list[j][1] > fitness_list[i][1]

\* spea2.find_best_solution on (hard, soft) tuples: a later entry replaces
\* the best one when its hard value is smaller, or equal with a larger
\* second value.
spea2_find_best_solution(archive_fitness) ==
    LET RECURSIVE BestLoop(_, _)
        BestLoop(i, best_idx) ==
            IF i > Len(archive_fitness) THEN best_idx
            ELSE LET fitness == archive_fitness[i]
                     best_fitness == archive_fitness[best_idx]
                 IN IF \/ fitness[1] < best_fitness[1]
                       \/ /\ fitness[1] = best_fitness[1]
                          /\ fitness[2] > best_fitness[2]
                    THEN BestLoop(i + 1, i)
                    ELSE BestLoop(i + 1, best_idx)
    IN BestLoop(1, 1)

\* The final population (archive) is any list of timetables the initializer
\* builds; op names the driver that returned, out holds the index of the
\* member it returned and fits the fitness list it looked at.
InitBest ==
    /\ population \in [1..POPULATION_SIZE -> InitialTimetables]
    /\ IdleInit
    /\ IdleFit
    /\ IdleEval
    /\ IdleMoead
    /\ IdleSpea2
    /\ IdleTracker

Nsga2FindBest ==
    /\ op = "none"
    /\ op' = "nsga2"
    /\ out' = <<find_best_solution(population)>>
    /\ fits' = fits
    /\ UNCHANGED <<evalVars, nsga2Vars, moeadVars, spea2Vars,
                   trackerVars>>

MoeadFindBest ==
    /\ op = "none"
    /\ \E fitness_list \in
            {[i \in DOMAIN population |-> evaluate_solution(population[i])]} :
         /\ fits' = fitness_list
         /\ out' = <<moead_best_idx(fitness_list)>>
    /\ op' = "moead"
    /\ UNCHANGED <<evalVars, nsga2Vars, moeadVars, spea2Vars,
                   trackerVars>>

Spea2FindBest ==
    /\ op = "none"
    /\ \E archive_fitness \in
            [DOMAIN population -> evaluate_individual(population[1])] :
         /\ fits' = archive_fitness
         /\ out' = <<spea2_find_best_solution(archive_fitness)>>
    /\ op' = "spea2"
    /\ UNCHANGED <<evalVars, nsga2Vars, moeadVars, spea2Vars,
                   trackerVars>>

SpecBest ==
    InitBest /\ [][Nsga2FindBest \/ MoeadFindBest \/ Spea2FindBest]_vars

\* (hard, 1 - soft) of a is lexicographically at most that of b: a smaller
\* hard score, or the same hard score and a soft score at least as high.
LexLeq(a, b) == a[1] < b[1] \/ (a[1] = b[1] /\ a[2] <= b[2])

\* C11: the member a driver returns from its final population or archive is
\* first in the order (hard score ascending, soft score descending): no
\* member has a lower hard score and no member with the same hard score has
\* a higher soft score.
C11_BestIsLexicographicFirst ==
    op \in {"nsga2", "moead", "spea2"} =>
        \A j \in DOMAIN population :
            LexLeq(evaluator(population[out[1]]), evaluator(population[j]))

(***************************************************************************)
(* The five hard counts, stated per cell and per slot.                     *)
(***************************************************************************)
OccupiedRooms(timetable, slot) ==
    {r \in RoomSet : timetable[slot][r] /= None}

SumOver(S, f) == SumSeq([i \in DOMAIN SetToSeq(S) |-> f[SetToSeq(S)[i]]])

VacantCells(timetable) ==
    Cardinality({c \in SlotSet \X RoomSet : timetable[c[1]][c[2]] = None})

TeacherConflictsOf(timetable) ==
    SumOver(SlotSet, [s \in SlotSet |->
        Cardinality(OccupiedRooms(timetable, s))
        - Cardinality({activities_dict[timetable[s][r]].teacher_id :
                          r \in OccupiedRooms(timetable, s)})])

GroupConflictsOf(timetable) ==
    SumOver(SlotSet \X DOMAIN groups_dict,
        [c \in SlotSet \X DOMAIN groups_dict |->
            LET occurrences ==
                    Cardinality({r \in OccupiedRooms(timetable, c[1]) :
                        c[2] \in Range(activities_dict[timetable[c[1]][r]].group_ids)})
            IN IF occurrences > 1 THEN occurrences - 1 ELSE 0])

CapacityViolationsOf(timetable) ==
    Cardinality({c \in SlotSet \X RoomSet :
        /\ timetable[c[1]][c[2]] /= None
        /\ SumSeq([i \in DOMAIN activities_dict[timetable[c[1]][c[2]]].group_ids |->
                     groups_dict[activities_dict[timetable[c[1]][c[2]]].group_ids[i]].size])
              > spaces_dict[c[2]].size})

UnassignedOf(timetable) ==
    Cardinality({a \in ActivityIds :
        \A c \in SlotSet \X RoomSet : timetable[c[1]][c[2]] /= a})

\* C12: for every well-formed timetable evaluate_hard_constraints returns
\* (vacant, teacherConflicts, groupConflicts, capacityViolations, unassigned):
\* the empty cells, per slot the occupied cells minus the distinct teachers,
\* per slot and subgroup the occurrences beyond the first, the occupied cells
\* whose groups exceed the room, and the activities that are in no cell.
C12_HardCountsAsSpecified ==
    \A i \in DOMAIN evals :
        (evals[i].strategy = "hard" /\ BrokenCells(tt) = {}) =>
            evals[i].fitness =
                <<VacantCells(tt), TeacherConflictsOf(tt), GroupConflictsOf(tt),
                  CapacityViolationsOf(tt), UnassignedOf(tt)>>

\* An evaluated well-formed timetable with a count of every kind: a repeated
\* teacher and subgroup, the 40 students of A2 in the room for 30 and in the
\* room for exactly 40, and an activity that is in no cell.
C12_Witness ==
    /\ BrokenCells(tt) = {}
    /\ \E i \in DOMAIN evals :
         /\ evals[i].strategy = "hard"
         /\ \A k \in 1..5 : evals[i].fitness[k] > 0
    /\ \E s \in SlotSet : tt[s]["R1"] = "A2"
    /\ \E s \in SlotSet : tt[s]["R2"] = "A2"

(***************************************************************************)
(* The soft score of fully booked days of four periods, double bookings    *)
(* included.                                                               *)
(***************************************************************************)
InitSoft ==
    /\ tt \in [Range(long_slots) -> [RoomSet -> ActivityIds]]
    /\ evals = <<>>
    /\ rngDraws = 0
    /\ IdleFit
    /\ IdleNsga2
    /\ IdleMoead
    /\ IdleSpea2
    /\ IdleTracker

EvaluateSoft ==
    /\ CanEvaluate("soft")
    /\ Evaluated("soft", FALSE,
                 evaluate_soft_constraints(tt, long_slots).final_score)
    /\ UNCHANGED <<tt, rngDraws, fitVars, nsga2Vars, moeadVars, spea2Vars,
                   trackerVars>>

SpecSoft == InitSoft /\ [][EvaluateSoft]_vars

\* C13: for every timetable, double-booked ones included, the soft score
\* evaluate_soft_constraints returns lies in [0, 1], and so does 1 - score.
C13_SoftScoreInUnitInterval ==
    \A i \in DOMAIN evals :
        evals[i].strategy = "soft" =>
            /\ RLeq(RInt(0), evals[i].fitness)
            /\ RLeq(evals[i].fitness, RInt(1))

(***************************************************************************)
(* The external shape of a timetable (runner.timetable_to_json) and its    *)
(* decoding (timetable_converter.convert_mongodb_timetable).               *)
(***************************************************************************)
\* JSON null, as a value that compares with the dict of an activity.
Null == [null |-> TRUE]

\* An Activity object has no attribute "name", so the name is ""; its
\* subject and duration are not written.  The cell of a value without an id
\* that activities_dict does not know becomes null.
timetable_to_json(timetable) ==
    [slot \in DOMAIN timetable |->
        [room \in DOMAIN timetable[slot] |->
            LET activity == timetable[slot][room]
            IN IF activity \in ActivityIds
               THEN [id |-> activities_dict[activity].id,
                     name |-> "",
                     teacher_id |-> activities_dict[activity].teacher_id,
                     group_ids |-> activities_dict[activity].group_ids]
               ELSE Null]]

\* timetable_converter._process_activity: the Activity namedtuple built from
\* the stored dict; a missing "duration" is 1 and the subject is the "name".
converter_process_activity(activity_data, activity_id) ==
    IF activity_data = Null THEN Null
    ELSE [id |-> activity_id,
          subject |-> IF "name" \in DOMAIN activity_data
                      THEN activity_data.name ELSE activity_id,
          teacher_id |-> IF "teacher_id" \in DOMAIN activity_data
                         THEN activity_data.teacher_id ELSE "Unknown",
          group_ids |-> IF "group_ids" \in DOMAIN activity_data
                        THEN activity_data.group_ids ELSE <<>>,
          duration |-> IF "duration" \in DOMAIN activity_data
                       THEN activity_data.duration ELSE 1]

\* The 'timetable' entry of the result: (slot_id, room_id) -> Activity, with
\* no key for a cell whose activity is None.
convert_mongodb_timetable(mongodb_timetable) ==
    LET cells == {c \in (DOMAIN mongodb_timetable) \X RoomSet :
                    /\ c[2] \in DOMAIN mongodb_timetable[c[1]]
                    /\ mongodb_timetable[c[1]][c[2]] /= Null}
    IN [c \in cells |->
          converter_process_activity(mongodb_timetable[c[1]][c[2]],
                                     mongodb_timetable[c[1]][c[2]].id)]

\* tt is the timetable to store; out holds its encoding, then its decoding.
InitJson ==
    /\ tt \in CompleteTimetables(CellValues)
    /\ evals = <<>>
    /\ rngDraws = 0
    /\ IdleFit
    /\ IdleNsga2
    /\ IdleMoead
    /\ IdleSpea2
    /\ IdleTracker

Encode ==
    /\ op = "none"
    /\ op' = "timetable_to_json"
    /\ out' = <<timetable_to_json(tt)>>
    /\ UNCHANGED <<fits, evalVars, nsga2Vars, moeadVars, spea2Vars,
                   trackerVars>>

Decode ==
    /\ op = "timetable_to_json"
    /\ op' = "convert_mongodb_timetable"
    /\ out' = <<convert_mongodb_timetable(out[1])>>
    /\ UNCHANGED <<fits, evalVars, nsga2Vars, moeadVars, spea2Vars,
                   trackerVars>>

SpecJson == InitJson /\ [][Encode \/ Decode]_vars

\* C14: decoding the encoding of a timetable recovers every (slot, room)
\* cell: an empty cell is empty again, an occupied cell holds an activity
\* with the same id and the same attributes.
C14_RoundTripIdentity ==
    op = "convert_mongodb_timetable" =>
        \A slot \in SlotSet, room \in RoomSet :
            IF tt[slot][room] = None
            THEN <<slot, room>> \notin DOMAIN out[1]
            ELSE /\ <<slot, room>> \in DOMAIN out[1]
                 /\ \A attr \in DOMAIN activities_dict[tt[slot][room]] :
                       out[1][<<slot, room>>][attr]
                           = activities_dict[tt[slot][room]][attr]

\* weightedHardScore of the five counts as stated for C12.
WeightedHardScoreOf(timetable) ==
    VacantCells(timetable) * 1 + TeacherConflictsOf(timetable) * 100
    + GroupConflictsOf(timetable) * 100
    + CapacityViolationsOf(timetable) * 50 + UnassignedOf(timetable) * 200

\* C15: in each of the three strategies the fitness vector of a timetable t
\* is (weightedHardScore(t), 1 - SoftScore(t)); NSGA-II, MOEA/D and SPEA2
\* give the same timetable the same vector.
C15_SameFitnessVector ==
    \A i \in DOMAIN evals :
        evals[i].strategy \in {"nsga2", "moead", "spea2"} =>
            evals[i].fitness =
                <<WeightedHardScoreOf(tt),
                  Scaled(RSub(RInt(1),
                      evaluate_soft_constraints(tt, slots).final_score))>>

(***************************************************************************)
(* generate_initial_population, one activity at a time, on the instance    *)
(* and on instances with some of the further activities.                   *)
(***************************************************************************)
\* The sublists of a list, in the list's order.
RECURSIVE SubSeqs(_)
SubSeqs(s) ==
    IF s = <<>> THEN {<<>>}
    ELSE LET rest == SubSeqs(Tail(s))
         IN rest \cup {<<Head(s)>> \o r : r \in rest}

\* timetable = {slot: {} for slot in slots}; the activities sorted.
InitPlacement ==
    /\ \E extra \in SubSeqs(ExtraOrder) :
          to_place = PlacementOrder(ActivityOrder \o extra)
    /\ turn = 1
    /\ new_timetable = [s \in SlotSet |-> [r \in {} |-> None]]
    /\ no_room = {}
    /\ population = <<>>
    /\ IdleFit
    /\ IdleEval
    /\ IdleMoead
    /\ IdleSpea2
    /\ IdleTracker

\* One round of "for activity in unassigned_activities".  no_room records
\* whether, before the round, any slot had an empty room whose size is at
\* least the sum of the sizes of the activity's groups.
PlaceActivity ==
    /\ turn \in DOMAIN to_place
    /\ LET activity == to_place[turn]
           size == SumSeq([i \in DOMAIN activities_dict[activity].group_ids |->
                      groups_dict[activities_dict[activity].group_ids[i]].size])
           free == {c \in SlotSet \X RoomSet :
                      /\ \/ c[2] \notin DOMAIN new_timetable[c[1]]
                         \/ new_timetable[c[1]][c[2]] = None
                      /\ spaces_dict[c[2]].size >= size}
       IN /\ new_timetable' \in PlaceOne(activity, new_timetable)
          /\ no_room' = IF free = {} THEN no_room \cup {activity} ELSE no_room
    /\ turn' = turn + 1
    /\ UNCHANGED <<to_place, population, fitVars, evalVars, moeadVars, spea2Vars,
                   trackerVars>>

\* "Ensure all rooms are initialized", population.append(timetable).
AppendIndividual ==
    /\ turn = Len(to_place) + 1
    /\ population = <<>>
    /\ population' = <<FillVacant(new_timetable)>>
    /\ UNCHANGED <<initVars, fitVars, evalVars, moeadVars, spea2Vars,
                   trackerVars>>

SpecInit == InitPlacement /\ [][PlaceActivity \/ AppendIndividual]_vars

\* The activities of the instance that are in no cell of a timetable.
AbsentFrom(timetable) ==
    {a \in Range(to_place) :
        \A c \in SlotSet \X RoomSet : timetable[c[1]][c[2]] /= a}

\* The activities whose groups together exceed every room.
Oversize ==
    {a \in Range(to_place) :
        \A r \in RoomSet :
            SumSeq([i \in DOMAIN activities_dict[a].group_ids |->
                      groups_dict[activities_dict[a].group_ids[i]].size])
                > spaces_dict[r].size}

\* C16: right after generate_initial_population an activity is absent from
\* the individual exactly when, at its turn, no slot had an empty room with
\* capacity at least its summed group size; so an activity larger than every
\* room is absent, and when all others found room the number of unassigned
\* activities is the number of such activities.
C16_AbsentIffNoRoomAtTurn ==
    population /= <<>> =>
        /\ AbsentFrom(population[1]) = no_room
        /\ Oversize \subseteq AbsentFrom(population[1])
        /\ no_room \subseteq Oversize =>
              Cardinality(AbsentFrom(population[1])) = Cardinality(Oversize)

\* An individual without the oversize A5 and without one activity that came
\* when the large room was taken in every slot, all others being placed.
C16_Witness ==
    /\ population /= <<>>
    /\ "A5" \in AbsentFrom(population[1])
    /\ \E a \in AbsentFrom(population[1]) : a \notin Oversize
    /\ Cardinality(AbsentFrom(population[1])) = 2
    /\ Len(to_place) = 7

(***************************************************************************)
(* NSGA-II: selection of the next generation from the combined pool.       *)
(***************************************************************************)
\* Mutant: the last front is never consulted.
selection_whole_fronts(pool, fitness_values) ==
    LET fronts == fast_nondominated_sort(fitness_values)
        RECURSIVE AddFronts(_, _)
        AddFronts(next_generation, front_idx) ==
            IF Len(next_generation) + Len(fronts[front_idx]) <= POPULATION_SIZE
            THEN LET ng == next_generation \o
                             [x \in DOMAIN fronts[front_idx] |->
                                 pool[fronts[front_idx][x]]]
                 IN IF front_idx + 1 > Len(fronts) THEN ng
                    ELSE AddFronts(ng, front_idx + 1)
            ELSE next_generation
    IN AddFronts(<<>>, 1)

\* Nsga_II_optimized.selection.  pool is the combined population and
\* fitness_values its fitness list; fronts[0] of an empty pool is an
\* IndexError, and no caller passes one.
selection(pool, fitness_values) ==
    LET fronts == fast_nondominated_sort(fitness_values)
        \* the while loop: [next_generation, front_idx] when it ends
        RECURSIVE AddFronts(_, _)
        AddFronts(next_generation, front_idx) ==
            IF Len(next_generation) + Len(fronts[front_idx]) <= POPULATION_SIZE
            THEN LET ng == next_generation \o
                             [x \in DOMAIN fronts[front_idx] |->
                                 pool[fronts[front_idx][x]]]
                 IN IF front_idx + 1 > Len(fronts) THEN <<ng, front_idx + 1>>
                    ELSE AddFronts(ng, front_idx + 1)
            ELSE <<next_generation, front_idx>>
        added == AddFronts(<<>>, 1)
        next_generation == added[1]
        front_idx == added[2]
        Greater(a, b) ==
            IF a.inf THEN ~b.inf
            ELSE ~b.inf /\ a.num * b.den > b.num * a.den
        \* sorted(..., key=distance, reverse=True): stable, descending
        RECURSIVE InsertDesc(_, _, _)
        InsertDesc(x, s, dist) ==
            IF s = <<>> THEN <<x>>
            ELSE IF Greater(dist[x], dist[Head(s)]) THEN <<x>> \o s
            ELSE <<Head(s)>> \o InsertDesc(x, Tail(s), dist)
        RECURSIVE SortedDesc(_, _)
        SortedDesc(n, dist) ==
            IF n = 0 THEN <<>>
            ELSE InsertDesc(n, SortedDesc(n - 1, dist), dist)
    IN IF Len(next_generation) < POPULATION_SIZE /\ front_idx <= Len(fronts)
       THEN LET front == fronts[front_idx]
                distances == calculate_crowding_distance(front, fitness_values)
                last_front_sorted == SortedDesc(Len(front), distances)
                remaining == POPULATION_SIZE - Len(next_generation)
            IN next_generation \o
                 [x \in 1..remaining |-> pool[front[last_front_sorted[x]]]]
       ELSE next_generation

\* selection applied to a pool whose members are named by their indices.
SelectionStep ==
    /\ op = "none"
    /\ fits /= <<>>
    /\ out' = selection(Indices(Len(fits)), fits)
    /\ op' = "selection"
    /\ UNCHANGED <<fits, evalVars, nsga2Vars, moeadVars, spea2Vars,
                   trackerVars>>

SpecSelection == InitFit /\ [][SelectionStep]_vars

\* The rank (from 1) of the front that holds index i.
FrontOf(fronts, i) ==
    CHOOSE k \in DOMAIN fronts : i \in Range(fronts[k])

\* C18: from a pool of at least POPULATION_SIZE individuals, selection returns
\* exactly POPULATION_SIZE distinct individuals: every member of the fronts
\* before front k, the first front that no longer fits as a whole, and
\* members of front k for the rest; so nobody is selected while a member of a
\* strictly better front is left out.
C18_SelectionByFronts ==
    (op = "selection" /\ Len(fits) >= POPULATION_SIZE) =>
        LET fronts == fast_nondominated_sort(fits)
            chosen == Range(out)
            full == {k \in DOMAIN fronts :
                        Len(Concat(SubSeq(fronts, 1, k))) <= POPULATION_SIZE}
        IN /\ Len(out) = POPULATION_SIZE
           /\ Cardinality(chosen) = POPULATION_SIZE
           /\ chosen \subseteq DOMAIN fits
           /\ \A k \in full : Range(fronts[k]) \subseteq chosen
           /\ \A i \in chosen :
                \/ FrontOf(fronts, i) \in full
                \/ FrontOf(fronts, i) = Cardinality(full) + 1
           /\ \A i \in chosen : \A j \in (DOMAIN fits) \ chosen :
                FrontOf(fronts, i) <= FrontOf(fronts, j)

\* Front 0 went in whole and one of the two members of front 1 filled the
\* population.
C18_Witness ==
    /\ op = "selection"
    /\ Len(fits) = 3
    /\ Len(fast_nondominated_sort(fits)) = 2
    /\ Len(fast_nondominated_sort(fits)[1]) = 1
    /\ Len(out) = POPULATION_SIZE
    /\ out[1] = fast_nondominated_sort(fits)[1][1]
    /\ out[2] \in Range(fast_nondominated_sort(fits)[2])

(***************************************************************************)
(* SPEA2: density and environmental selection (the definitions in force,   *)
(* the later ones of the file).  A density 1.0 / (d + 2.0) is kept as the   *)
(* square sq of the distance d it was computed from: it lies in (0, 1/2]    *)
(* and is the larger the smaller sq is.                                     *)
(***************************************************************************)
ISqrt(n) == CHOOSE k \in 0..n : k * k <= n /\ (k + 1) * (k + 1) > n

\* density_a < density_b
DensityLess(a, b) == a.sq > b.sq

\* Needs two or more vectors: with one, distances is empty and
\* distances[k-1] raises IndexError.
calculate_density(fitness_values) ==
    LET n == Len(fitness_values)
        k0 == ISqrt(n)
        k == IF (IF k0 < n - 1 THEN k0 ELSE n - 1) > 1
             THEN (IF k0 < n - 1 THEN k0 ELSE n - 1) ELSE 1
        norm2(i, j) ==
            (fitness_values[i][1] - fitness_values[j][1])
                * (fitness_values[i][1] - fitness_values[j][1])
            + (fitness_values[i][2] - fitness_values[j][2])
                * (fitness_values[i][2] - fitness_values[j][2])
        distances(i) ==
            SortedAsc(SelectSeq(Indices(n), LAMBDA j : j /= i),
                      [j \in 1..n |-> norm2(i, j)])
    IN [i \in 1..n |-> [sq |-> norm2(i, distances(i)[k])]]

\* Mutant: the test of the first loop looks at the raw fitness alone.
FinalIsZero_raw(ffitness) == ffitness.raw = 0

\* "ffitness == 0" for ffitness = raw + 1.0 / (d + 2.0), that is
\* raw * (d + 2) = -1 (d rounded down here): true of no count raw >= 0.
FinalIsZero(ffitness) == ffitness.raw * (ISqrt(ffitness.dens.sq) + 2) = -1

\* [raw + dens for raw, dens in zip(raw_fitness, densities)], each sum kept
\* as its two terms.
FinalFitness(fitness_values) ==
    LET strengths == calculate_dominance_strength(fitness_values)
        raw_fitness == calculate_raw_fitness(fitness_values, strengths)
        densities == calculate_density(fitness_values)
    IN [i \in DOMAIN fitness_values |->
           [raw |-> raw_fitness[i], dens |-> densities[i]]]

\* raw_f + density_f < raw_g + density_g: a density is below 1.
FinalLess(f, g) ==
    \/ f.raw < g.raw
    \/ f.raw = g.raw /\ DensityLess(f.dens, g.dens)

\* spea2.environmental_selection on a pool named by its indices: the
\* archive, as the list of the indices selected.
environmental_selection(fitness_values, archive_size) ==
    LET n == Len(fitness_values)
        final_fitness == FinalFitness(fitness_values)
        RECURSIVE Insert(_, _)
        Insert(x, s) ==
            IF s = <<>> THEN <<x>>
            ELSE IF FinalLess(final_fitness[x], final_fitness[Head(s)])
                 THEN <<x>> \o s
                 ELSE <<Head(s)>> \o Insert(x, Tail(s))
        RECURSIVE Sorted(_)
        Sorted(m) == IF m = 0 THEN <<>> ELSE Insert(m, Sorted(m - 1))
        combined == Sorted(n)
        archive_inds == SelectSeq(combined,
                                  LAMBDA i : FinalIsZero(final_fitness[i]))
        \* the filling loop; ffitness > 0 is ffitness /= 0, the sum being >= 0
        RECURSIVE Fill(_, _)
        Fill(rest, archive) ==
            IF rest = <<>> THEN archive
            ELSE Fill(Tail(rest),
                      IF /\ ~FinalIsZero(final_fitness[Head(rest)])
                         /\ Len(archive) < archive_size
                      THEN Append(archive, Head(rest)) ELSE archive)
        \* the truncation: density again, inside the non-dominated set, sorted
        \* descending and stable
        non_dom_density ==
            calculate_density([x \in DOMAIN archive_inds |->
                                  fitness_values[archive_inds[x]]])
        RECURSIVE InsertDesc(_, _)
        InsertDesc(x, s) ==
            IF s = <<>> THEN <<x>>
            ELSE IF DensityLess(non_dom_density[Head(s)], non_dom_density[x])
                 THEN <<x>> \o s
                 ELSE <<Head(s)>> \o InsertDesc(x, Tail(s))
        RECURSIVE SortedDesc(_)
        SortedDesc(m) == IF m = 0 THEN <<>> ELSE InsertDesc(m, SortedDesc(m - 1))
    IN IF Len(archive_inds) < archive_size THEN Fill(combined, archive_inds)
       ELSE IF Len(archive_inds) > archive_size
       THEN [x \in 1..archive_size |->
                archive_inds[SortedDesc(Len(archive_inds))[x]]]
       ELSE archive_inds

EnvironmentalSelectionStep ==
    /\ op = "none"
    /\ Len(fits) >= 2
    /\ \E archive_size \in 1..MaxN :
         out' = [archive |-> environmental_selection(fits, archive_size),
                 archive_size |-> archive_size]
    /\ op' = "environmental"
    /\ UNCHANGED <<fits, evalVars, nsga2Vars, moeadVars, spea2Vars,
                   trackerVars>>

SpecEnvironmental == InitFit /\ [][EnvironmentalSelectionStep]_vars

\* The individuals of the pool with raw fitness 0.
RawZero ==
    {i \in DOMAIN fits :
        calculate_raw_fitness(fits, calculate_dominance_strength(fits))[i] = 0}

\* C20: when the individuals of raw fitness 0 fit in the archive they are all
\* in it and the rest is filled by ascending final fitness; when they do not
\* fit the archive holds only such individuals and every one left out is at
\* least as dense as every one taken; a dominated individual is never in the
\* archive while a non-dominated one is left out.
C20_ArchiveByRawThenDensity ==
    op = "environmental" =>
        LET archive == Range(out.archive)
            left == (DOMAIN fits) \ archive
            raw == calculate_raw_fitness(fits, calculate_dominance_strength(fits))
            dens == calculate_density(fits)
            capacity == IF out.archive_size < Len(fits)
                        THEN out.archive_size ELSE Len(fits)
        IN /\ Len(out.archive) = capacity
           /\ Cardinality(archive) = capacity
           /\ Cardinality(RawZero) <= out.archive_size =>
                /\ RawZero \subseteq archive
                /\ \A i \in archive \ RawZero : \A j \in left :
                     \/ raw[i] < raw[j]
                     \/ raw[i] = raw[j] /\ ~DensityLess(dens[j], dens[i])
           /\ Cardinality(RawZero) > out.archive_size =>
                /\ archive \subseteq RawZero
                /\ \A i \in archive : \A j \in RawZero \ archive :
                     ~DensityLess(dens[j], dens[i])
           /\ \A i \in archive : \A j \in left : ~(raw[i] > 0 /\ raw[j] = 0)

\* More non-dominated individuals than the archive holds, and one left out
\* that is strictly denser than one taken.
C20_Witness ==
    /\ op = "environmental"
    /\ Cardinality(RawZero) > out.archive_size
    /\ \E i \in Range(out.archive) : \E j \in RawZero \ Range(out.archive) :
         DensityLess(calculate_density(fits)[i], calculate_density(fits)[j])

(***************************************************************************)
(* NSGA-II: the generation loop of run_nsga2_optimizer.  The model runs    *)
(* NUM_GENERATIONS = 2 generations (50 in the source) on the population of *)
(* POPULATION_SIZE members; generation counts them from 0.                 *)
(***************************************************************************)
NUM_GENERATIONS == 2
LOCAL_SEARCH_ITERATIONS == 50

evaluate_population(pool) == [i \in DOMAIN pool |-> evaluator(pool[i])]

\* Nsga_II_optimized.mutate: repair_mutation or random_mutation.
mutate(individual) == repair_mutation(individual) \cup random_mutation(individual)

\* The lists create_offspring can return: per iteration two parents (the
\* first of a random.sample each), their crossover or their copies, each
\* child mutated or not; trimmed to POPULATION_SIZE.
create_offspring(pool) ==
    LET pairs ==
            UNION {LET children == crossover(pool[p1], pool[p2])
                                      \cup {<<pool[p1], pool[p2]>>}
                   IN UNION {({c[1]} \cup mutate(c[1])) \X ({c[2]} \cup mutate(c[2]))
                             : c \in children}
                   : <<p1, p2>> \in (DOMAIN pool) \X (DOMAIN pool)}
        RECURSIVE Loop(_)
        Loop(offspring) ==
            IF Len(offspring) < POPULATION_SIZE
            THEN UNION {Loop(offspring \o <<c[1], c[2]>>) : c \in pairs}
            ELSE {SubSeq(offspring, 1, POPULATION_SIZE)}
    IN Loop(<<>>)

\* One iteration of the improvement loop of apply_local_search on a
\* timetable with violations, for the violation picked at (slot, room).
LocalSearchOne(improved, slot, room) ==
    LET activity == improved[slot][room]
        moves ==
            {c \in (SlotSet \ {slot}) \X RoomSet :
                /\ check_activity_conflicts(activity, c[1], improved)
                /\ c[2] \in Range(find_suitable_rooms(activity, c[1], improved))}
        rooms_in_target(ts) ==
            {r \in DOMAIN improved[ts] : improved[ts][r] /= None}
    IN IF moves /= {}
       THEN {Put(Put(improved, slot, room, None), c[1], c[2], activity) :
               c \in moves}
       ELSE {improved} \cup
            UNION {{Swap(improved, slot, room, ts, tr) : tr \in rooms_in_target(ts)}
                   : ts \in SlotSet \ {slot}}

\* The lists of improved solutions apply_local_search can return.
apply_local_search(solutions, fitness_values) ==
    LET \* sum(fitness of a) < sum(fitness of b), the soft objectives being
        \* carried times SoftScale and less than 2 apart
        SumLess(a, b) ==
            LET dh == fitness_values[a][1] - fitness_values[b][1]
            IN IF dh >= 2 THEN FALSE
               ELSE IF dh <= -2 THEN TRUE
               ELSE dh * SoftScale < fitness_values[b][2] - fitness_values[a][2]
        RECURSIVE Insert(_, _)
        Insert(x, s) ==
            IF s = <<>> THEN <<x>>
            ELSE IF SumLess(x, Head(s)) THEN <<x>> \o s
            ELSE <<Head(s)>> \o Insert(x, Tail(s))
        RECURSIVE Sorted(_)
        Sorted(m) == IF m = 0 THEN <<>> ELSE Insert(m, Sorted(m - 1))
        ranked_solutions == Sorted(Len(solutions))
        top == IF POPULATION_SIZE \div 10 > 1 THEN POPULATION_SIZE \div 10 ELSE 1
        top_solutions == [x \in 1..top |-> solutions[ranked_solutions[x]]]
        Step(improved) ==
            IF find_violations(improved) = {} THEN {improved}
            ELSE UNION {LocalSearchOne(improved, v[1], v[2]) :
                           v \in find_violations(improved)}
        RECURSIVE Iterate(_, _)
        Iterate(S, n) ==
            IF n = 0 THEN S
            ELSE LET S2 == UNION {Step(t) : t \in S}
                 IN IF S2 = S THEN S ELSE Iterate(S2, n - 1)
        RECURSIVE Lists(_)
        Lists(x) ==
            IF x = 0 THEN {<<>>}
            ELSE {Append(l, t) : l \in Lists(x - 1),
                                 t \in Iterate({top_solutions[x]},
                                               LOCAL_SEARCH_ITERATIONS)}
    IN Lists(top)

\* The populations apply_periodic_local_search can return.
apply_periodic_local_search(pool, gen) ==
    IF gen % 20 = 0
    THEN LET RECURSIVE Replace(_, _)
             Replace(p, improved_solutions) ==
                 IF improved_solutions = <<>> THEN {p}
                 ELSE UNION {Replace([p EXCEPT ![idx] = Head(improved_solutions)],
                                     Tail(improved_solutions))
                             : idx \in DOMAIN p}
         IN UNION {Replace(pool, l) :
                      l \in apply_local_search(pool, evaluate_population(pool))}
    ELSE {pool}

\* The generation loop is followed from the initial populations whose
\* members have A2 and A3 together in the last slot.
SeedTimetables ==
    {t \in InitialTimetables : {t[slots[Len(slots)]][r] : r \in RoomSet} = {"A2", "A3"}}

InitGenerations ==
    /\ population \in [1..POPULATION_SIZE -> SeedTimetables]
    /\ IdleInit
    /\ IdleFit
    /\ IdleEval
    /\ IdleMoead
    /\ IdleSpea2
    /\ IdleTracker

\* population = run_single_generation(population, generation)
RunSingleGeneration ==
    /\ generation < NUM_GENERATIONS
    /\ \E offspring \in create_offspring(population) :
         \E combined_fitness \in {evaluate_population(population \o offspring)} :
            population' \in
              apply_periodic_local_search(
                  selection(population \o offspring, combined_fitness),
                  generation)
    /\ generation' = generation + 1
    /\ UNCHANGED <<initVars, fitVars, evalVars, spea2Vars, trackerVars, heap,
                   moead_population, moead_fitness, moead_ideal, evaluated,
                   new_solutions, pc, sub>>

SpecGenerations == InitGenerations /\ [][RunSingleGeneration]_vars

\* The least weighted hard score of a population.
MinHardScore(pool) ==
    CHOOSE h \in {WeightedHardScoreOf(pool[i]) : i \in DOMAIN pool} :
        \A i \in DOMAIN pool : h <= WeightedHardScoreOf(pool[i])

\* C19: the minimum weighted hard score over the population never increases
\* from one generation to the next.
C19_MinHardNeverIncreases ==
    [][MinHardScore(population') <= MinHardScore(population)]_vars

(***************************************************************************)
(* SPEA2 run on the dataset of two activities of one lecturer and one      *)
(* group of 40, two slots and one room of 40.  data holds what             *)
(* Data_Loading gives for it: slots, the keys of spaces_dict and the keys  *)
(* of activities_dict, in order.  The run has spea2_POPULATION_SIZE        *)
(* members, spea2_NUM_GENERATIONS generations and an archive of            *)
(* ARCHIVE_SIZE (30, 100 and 30 in the source), and evaluate_individual,   *)
(* called without an evaluator, draws its fitness at random: RandomFitness *)
(* has the values the model lets it draw.                                  *)
(***************************************************************************)
two_slot_data ==
    [slots |-> <<"MON1", "MON2">>, rooms |-> <<"R1">>,
     activities |-> <<"A4", "A7">>]

spea2_POPULATION_SIZE == 2
spea2_NUM_GENERATIONS == 2
ARCHIVE_SIZE == 3
RandomFitness == {<<0, 1>>, <<1, 0>>}

spea2_find_suitable_rooms(activity, slot, timetable, data) ==
    SelectSeq(data.rooms,
        LAMBDA room_id :
            /\ ~(/\ room_id \in DOMAIN timetable[slot]
                 /\ timetable[slot][room_id] /= None)
            /\ ~(GroupSize(activity) > spaces_dict[room_id].size))

\* The timetables one iteration of spea2.generate_initial_population can
\* build.
spea2_generate_initial_population(data) ==
    LET cells == Range(data.slots) \X Range(data.rooms)
        Options(activity, t) ==
            LET rooms(s) == Range(spea2_find_suitable_rooms(activity, s, t, data))
                first == {c \in cells :
                            /\ check_activity_conflicts(activity, c[1], t)
                            /\ c[2] \in rooms(c[1])}
                roomy == {s \in Range(data.slots) : rooms(s) /= {}}
                best_slots ==
                    {s \in roomy : \A o \in roomy :
                        PlacementConflicts(activity, s, t)
                            <= PlacementConflicts(activity, o, t)}
            IN IF first /= {} THEN first
               ELSE {c \in cells : c[1] \in best_slots /\ c[2] \in rooms(c[1])}
        RECURSIVE Place(_, _)
        Place(ts, acts) ==
            IF acts = <<>> THEN ts
            ELSE Place(UNION {IF Options(Head(acts), t) = {} THEN {t}
                              ELSE {Put(t, c[1], c[2], Head(acts)) :
                                      c \in Options(Head(acts), t)}
                              : t \in ts},
                       Tail(acts))
    IN {[s \in Range(data.slots) |->
            [r \in Range(data.rooms) |->
                IF r \in DOMAIN t[s] THEN t[s][r] ELSE None]]
        : t \in Place({[s \in Range(data.slots) |-> [r \in {} |-> None]]},
                      PlacementOrder(data.activities))}

\* spea2.find_violations: the list of violations, each as the <<slot, room>>
\* of its tuple; the activity of the tuple is the one in that cell.
spea2_find_violations(timetable, data) ==
    Concat([k \in DOMAIN data.slots |->
              ViolationRooms([violations |-> <<>>,
                              lecturer_seen |-> [x \in {} |-> None],
                              group_seen |-> [x \in {} |-> None]],
                             timetable, data.slots[k], data.rooms).violations])

\* The timetables spea2.repair_mutation can return.
spea2_repair_mutation(timetable, data) ==
    LET violations == spea2_find_violations(timetable, data)
        cells == Range(data.slots) \X Range(data.rooms)
        \* one round of "for slot, room, activity_id in violations"
        RepairStep(t, v) ==
            LET activity_id == timetable[v[1]][v[2]]
                cleared == Put(t, v[1], v[2], None)
                valid_placements ==
                    {c \in cells :
                        /\ cleared[c[1]][c[2]] = None
                        /\ c \notin Range(spea2_find_violations(
                               Put(cleared, c[1], c[2], activity_id), data))}
            IN IF valid_placements = {}
               THEN {Put(cleared, v[1], v[2], activity_id)}
               ELSE {Put(cleared, c[1], c[2], activity_id) :
                       c \in valid_placements}
        RECURSIVE Repair(_, _)
        Repair(ts, vs) ==
            IF vs = <<>> THEN ts
            ELSE Repair(UNION {RepairStep(t, Head(vs)) : t \in ts}, Tail(vs))
        unassigned(t) ==
            {a \in Range(data.activities) :
                \A c \in cells : t[c[1]][c[2]] /= a}
        key(a) == Len(activities_dict[a].group_ids) * 100
                  + activities_dict[a].duration
        \* list(set) sorted by (groups, duration), larger first: any order
        \* of the set that the sort leaves as it is
        orders(U) ==
            {o \in [1..Cardinality(U) -> U] :
                /\ \A i, j \in DOMAIN o : i /= j => o[i] /= o[j]
                /\ \A i, j \in DOMAIN o : i < j => key(o[i]) >= key(o[j])}
        \* one unassigned activity: a feasible slot with a room, or else the
        \* first placement met that leaves the fewest violations
        PlaceAgain(t, activity) ==
            LET rooms(s) == spea2_find_suitable_rooms(activity, s, t, data)
                first == {c \in cells :
                            /\ check_activity_conflicts(activity, c[1], t)
                            /\ c[2] \in Range(rooms(c[1]))}
                pairs == {c \in cells : c[2] \in Range(rooms(c[1]))}
                conflicts(c) ==
                    Len(spea2_find_violations(Put(t, c[1], c[2], activity), data))
                best == {c \in pairs :
                           /\ \A o \in pairs : conflicts(c) <= conflicts(o)
                           /\ \A x \in DOMAIN rooms(c[1]) :
                                (\E y \in DOMAIN rooms(c[1]) :
                                    x < y /\ rooms(c[1])[y] = c[2])
                                => conflicts(<<c[1], rooms(c[1])[x]>>)
                                       /= conflicts(c)}
            IN IF first /= {}
               THEN {Put(t, c[1], c[2], activity) : c \in first}
               ELSE IF pairs = {} THEN {t}
               ELSE {Put(t, c[1], c[2], activity) : c \in best}
        RECURSIVE PlaceList(_, _)
        PlaceList(ts, acts) ==
            IF acts = <<>> THEN ts
            ELSE PlaceList(UNION {PlaceAgain(t, Head(acts)) : t \in ts},
                           Tail(acts))
    IN IF violations = <<>> THEN {timetable}
       ELSE UNION {UNION {PlaceList({t}, o) : o \in orders(unassigned(t))}
                   : t \in Repair({timetable}, violations)}

\* What a call can give: a value, or an exception that ends the run.
Raised == [raised |-> TRUE, value |-> <<>>]
Returned(v) == [raised |-> FALSE, value |-> v]

\* spea2.random_mutation: random.sample(..., 2) of slots and of the rooms
\* raises ValueError when there are fewer than two of them.
spea2_random_mutation(timetable, data) ==
    IF Len(data.slots) < 2 \/ Len(data.rooms) < 2 THEN {Raised}
    ELSE {Returned(Swap(timetable, c[1], c[2], c[3], c[4])) :
            c \in {x \in Range(data.slots) \X Range(data.rooms)
                         \X Range(data.slots) \X Range(data.rooms) :
                      x[1] /= x[3] /\ x[2] /= x[4]}}

\* spea2.mutate, the definition in force in spea2.py.
spea2_mutate(individual, data) ==
    {Returned(t) : t \in spea2_repair_mutation(individual, data)}
        \cup spea2_random_mutation(individual, data)

\* spea2.create_next_generation; fitness_values is the list of final
\* fitness values of current_population.
create_next_generation(current_population, fitness_values, data) ==
    LET n == Len(current_population)
        winners ==
            {IF FinalLess(fitness_values[p[1]], fitness_values[p[2]])
             THEN p[1] ELSE p[2]
             : p \in {q \in (1..n) \X (1..n) : q[1] /= q[2]}}
        mating_pools ==
            {[x \in 1..spea2_POPULATION_SIZE |-> current_population[w[x]]] :
                w \in [1..spea2_POPULATION_SIZE -> winners]}
        Mutations(o) == {Returned(o)} \cup spea2_mutate(o, data)
        Pair(m1, m2) ==
            UNION {{IF a.raised \/ b.raised THEN Raised
                    ELSE Returned(<<a.value, b.value>>)
                    : a \in Mutations(c[1]), b \in Mutations(c[2])}
                   : c \in crossover(m1, m2) \cup {<<m1, m2>>}}
        RECURSIVE Build(_, _)
        Build(mating_pool, i) ==
            IF i > Len(mating_pool) THEN {Returned(<<>>)}
            ELSE IF i + 1 > Len(mating_pool)
            THEN {Returned(<<mating_pool[i]>>)}
            ELSE {IF h.raised \/ r.raised THEN Raised
                  ELSE Returned(h.value \o r.value)
                  : h \in Pair(mating_pool[i], mating_pool[i + 1]),
                    r \in Build(mating_pool, i + 2)}
    IN IF n < 2 THEN {Raised}
       ELSE UNION {Build(mating_pool, 1) : mating_pool \in mating_pools}

InitSpea2 ==
    /\ population \in [1..spea2_POPULATION_SIZE ->
                          spea2_generate_initial_population(two_slot_data)]
    /\ IdleSpea2
    /\ IdleTracker
    /\ IdleInit
    /\ IdleFit
    /\ IdleEval
    /\ IdleMoead

\* Mutant: the fitness list of the archive is cut from the pool as it came.
archive_fits_unsorted(combined_fitness, selected) ==
    SubSeq(combined_fitness, 1, Len(selected))

\* archive_fits of environmental_selection: the fitness appended with each
\* individual selected.
archive_fits(combined_fitness, selected) ==
    [x \in DOMAIN selected |-> combined_fitness[selected[x]]]

\* evaluate_population_fitness: fitness i is the one evaluate_individual
\* gave for population[i].
Recorded(pool, fitness_values) ==
    {<<pool[i], fitness_values[i]>> : i \in DOMAIN pool}

\* One round of the main loop before the last: evaluation, environmental
\* selection, then the new population, unless an operator raises.
Spea2Generation ==
    /\ op = "none"
    /\ generation < spea2_NUM_GENERATIONS - 1
    /\ \E fitness_values \in [DOMAIN population -> RandomFitness] :
         LET combined_pop == population \o spea2_archive
             combined_fitness == fitness_values \o spea2_archive_fitness
             selected == environmental_selection(combined_fitness, ARCHIVE_SIZE)
         IN /\ spea2_recorded' =
                   spea2_recorded \cup Recorded(population, fitness_values)
            /\ spea2_archive' = [x \in DOMAIN selected |-> combined_pop[selected[x]]]
            /\ spea2_archive_fitness' = archive_fits(combined_fitness, selected)
            /\ \E result \in create_next_generation(
                                 combined_pop, FinalFitness(combined_fitness),
                                 two_slot_data) :
                 IF result.raised
                 THEN op' = "error" /\ UNCHANGED <<population, generation>>
                 ELSE /\ population' = SubSeq(result.value, 1, spea2_POPULATION_SIZE)
                      /\ generation' = generation + 1
                      /\ UNCHANGED op
    /\ UNCHANGED <<fits, out, initVars, evalVars, trackerVars, heap,
                   moead_population, moead_fitness, moead_ideal, evaluated,
                   new_solutions, pc, sub>>

\* The last round and the return: evaluation, environmental selection,
\* break, find_best_solution(archive, archive_fitness).
Spea2Return ==
    /\ op = "none"
    /\ generation = spea2_NUM_GENERATIONS - 1
    /\ \E fitness_values \in [DOMAIN population -> RandomFitness] :
         LET combined_pop == population \o spea2_archive
             combined_fitness == fitness_values \o spea2_archive_fitness
             selected == environmental_selection(combined_fitness, ARCHIVE_SIZE)
             archive == [x \in DOMAIN selected |-> combined_pop[selected[x]]]
             archive_fitness == archive_fits(combined_fitness, selected)
         IN /\ spea2_recorded' =
                   spea2_recorded \cup Recorded(population, fitness_values)
            /\ spea2_archive' = archive
            /\ spea2_archive_fitness' = archive_fitness
            /\ out' = <<archive[spea2_find_best_solution(archive_fitness)]>>
    /\ op' = "returned"
    /\ UNCHANGED <<fits, nsga2Vars, evalVars, moeadVars, trackerVars>>

SpecSpea2 == InitSpea2 /\ [][Spea2Generation \/ Spea2Return]_vars

\* The slots of a timetable that hold the activity.
SlotsHolding(timetable, activity) ==
    {s \in DOMAIN timetable :
        \E r \in DOMAIN timetable[s] : timetable[s][r] = activity}

\* C17: on this instance every run of the optimizer ends without an error
\* and returns a timetable with the two activities in different slots (so
\* without a lecturer conflict).
C17_RunSeparatesTheTwoActivities ==
    /\ op /= "error"
    /\ op = "returned" =>
         /\ SlotsHolding(out[1], "A4") /= {}
         /\ SlotsHolding(out[1], "A7") /= {}
         /\ SlotsHolding(out[1], "A4") \cap SlotsHolding(out[1], "A7") = {}

\* C21: after every generation the archive holds at most ARCHIVE_SIZE
\* individuals, and exactly ARCHIVE_SIZE once the population and the previous
\* archive together have that many; archive_fitness is as long as the
\* archive, and its element i is a fitness recorded for archive[i].
C21_ArchiveBoundedAndPaired ==
    /\ [](/\ Len(spea2_archive) <= ARCHIVE_SIZE
          /\ Len(spea2_archive_fitness) = Len(spea2_archive)
          /\ \A i \in DOMAIN spea2_archive :
               <<spea2_archive[i], spea2_archive_fitness[i]>> \in spea2_recorded)
    /\ [][Len(population) + Len(spea2_archive) >= ARCHIVE_SIZE
            => Len(spea2_archive') = ARCHIVE_SIZE]_vars

\* The run returned with a full archive cut from a larger pool, holding two
\* different timetables with different fitness.
C21_Witness ==
    /\ op = "returned"
    /\ Len(spea2_archive) = ARCHIVE_SIZE
    /\ Cardinality(spea2_recorded) > ARCHIVE_SIZE
    /\ \E i, j \in DOMAIN spea2_archive :
         /\ spea2_archive[i] /= spea2_archive[j]
         /\ spea2_archive_fitness[i] /= spea2_archive_fitness[j]

\* The stored solution and fitness of index j after the update of a
\* subproblem, as the rule of replacement gives them: child1 first, then
\* child2 against what child1 left.
ReplacedAsRuled(j) ==
    LET new_fitness == [k \in DOMAIN new_solutions |->
                          evaluate_solution(Deref(new_solutions[k], heap))]
        value(fitness) ==
            scalarizing_function(fitness, weight_vectors[j], moead_ideal')
        first == value(new_fitness[1]) < value(moead_fitness[j])
        after_first == IF first THEN new_fitness[1] ELSE moead_fitness[j]
        second == value(new_fitness[2]) < value(after_first)
    IN /\ moead_fitness'[j] =
              IF second THEN new_fitness[2] ELSE after_first
       /\ PopulationCells'[j] =
              IF second THEN Deref(new_solutions[2], heap)
              ELSE IF first THEN Deref(new_solutions[1], heap)
              ELSE PopulationCells[j]

\* C22: in the update of a subproblem, a neighbour's stored solution and
\* fitness are replaced by a child exactly when the child's Tchebycheff value
\* under the neighbour's weight vector and the current ideal point is
\* strictly below the neighbour's stored value, for every neighbour; the
\* indices outside the neighbourhood keep their solution and fitness.
C22_NeighboursReplacedIffStrictlyBetter ==
    [][pc = "update" =>
         \A j \in DOMAIN moead_population :
            IF j \in Range(neighborhoods[sub])
            THEN ReplacedAsRuled(j)
            ELSE /\ moead_fitness'[j] = moead_fitness[j]
                 /\ PopulationCells'[j] = PopulationCells[j]]_vars

\* The update of subproblem 1 has replaced both of its neighbours by the same
\* child and left the member outside the neighbourhood as it was.
C22_Witness ==
    /\ pc = "produce"
    /\ sub = 2
    /\ generation = 1
    /\ moead_population[1] = moead_population[2]
    /\ moead_population[3] /= moead_population[1]
    /\ moead_fitness[1] = moead_fitness[2]
    /\ moead_fitness[3] /= moead_fitness[1]

\* C23: after every subproblem step (and so at the end of every generation
\* and when the best member is picked) the fitness stored for each member is
\* what evaluating the timetable the member now holds gives.
C23_StoredFitnessIsCurrent ==
    pc \in {"produce", "done"} =>
        \A i \in DOMAIN moead_population :
            moead_fitness[i] = evaluate_solution(PopulationCells[i])

\* The cells of a timetable that hold the activity.
CellsOf(timetable, activity) ==
    {c \in SlotSet \X RoomSet : timetable[c[1]][c[2]] = activity}

\* C24: on the instance of A1, A2 and A3 alone, where conflict-free cells
\* that fit are enough for every required occurrence (A2 twice in R1, A1 in
\* the third slot, A3 beside A2), every activity occupies exactly duration
\* cells of the initial timetable.
C24_DurationCellsPerActivity ==
    (population /= <<>> /\ Len(to_place) = Len(ActivityOrder)) =>
        \A a \in Range(to_place) :
            Cardinality(CellsOf(population[1], a)) = activities_dict[a].duration

\* The activities of the instance with no occurrence in the timetable.
Unplaced(timetable) ==
    {a \in Range(ActivityOrder) : CellsOf(timetable, a) = {}}

\* A slot without a lecturer or group conflict for the activity that has an
\* empty room large enough for it.
Placeable(timetable, activity) ==
    \E s \in SlotSet :
        /\ check_activity_conflicts(activity, s, timetable)
        /\ find_suitable_rooms(activity, s, timetable) /= <<>>

\* C25: when repair_mutation is applied to a timetable in which an activity
\* has no occurrence and is placeable, the timetable it returns holds the
\* activity (stated here only for the returns in which the activity is
\* still placeable, so that a move of the repair cannot be what prevents it).
C25_RepairPlacesUnassigned ==
    [][\A i \in DOMAIN population :
          (/\ i \in DOMAIN population'
           /\ population' = [population EXCEPT ![i] = population'[i]]
           /\ population'[i] \in repair_mutation(population[i]))
          => \A a \in Unplaced(population[i]) :
                (Placeable(population[i], a) /\ Placeable(population'[i], a))
                    => a \notin Unplaced(population'[i])]_vars

(***************************************************************************)
(* The mutation operators of NSGA-II and SPEA2 on one timetable of the     *)
(* instance of A1, A2 and A3.                                              *)
(***************************************************************************)
\* What spea2.py reads from Data_Loading for that instance.
instance_data ==
    [slots |-> slots, rooms |-> RoomOrder, activities |-> ActivityOrder]

InitMutation ==
    /\ population \in [1..1 -> InitialTimetables]
    /\ IdleInit
    /\ IdleFit
    /\ IdleEval
    /\ IdleMoead
    /\ IdleSpea2
    /\ IdleTracker

Spea2RepairMutation ==
    /\ population' \in
         {<<t>> : t \in spea2_repair_mutation(population[1], instance_data)}
    /\ UNCHANGED <<initVars, fitVars, evalVars, moeadVars, spea2Vars,
                   trackerVars>>

Spea2RandomMutation ==
    /\ \E result \in spea2_random_mutation(population[1], instance_data) :
         /\ ~result.raised
         /\ population' = <<result.value>>
    /\ UNCHANGED <<initVars, fitVars, evalVars, moeadVars, spea2Vars,
                   trackerVars>>

SpecMutation ==
    InitMutation /\ [][RepairMutation \/ RandomMutation
                       \/ Spea2RepairMutation \/ Spea2RandomMutation]_vars

\* C26: a mutation leaves every placed activity with as many cells as it
\* had; only an activity without a cell may gain one.
C26_MutationKeepsOccurrences ==
    [][\A a \in Range(ActivityOrder) :
          CellsOf(population[1], a) /= {}
              => Cardinality(CellsOf(population'[1], a))
                     = Cardinality(CellsOf(population[1], a))]_vars

(***************************************************************************)
(* Crossover alone: Nsga_II_optimized.crossover on two initial timetables, *)
(* and the crossover of a MOEA/D subproblem on two members.                *)
(***************************************************************************)
CrossoverStep ==
    /\ op = "none"
    /\ \E parent1 \in InitialTimetables, parent2 \in InitialTimetables :
         \E children \in crossover(parent1, parent2) :
            out' = [parent1 |-> parent1, parent2 |-> parent2,
                    child1 |-> children[1], child2 |-> children[2]]
    /\ op' = "crossover"
    /\ UNCHANGED <<fits, evalVars, nsga2Vars, moeadVars, spea2Vars,
                   trackerVars>>

SpecCrossover == InitMoead /\ [][CrossoverStep \/ MoeadCrossover]_vars

\* child1 is parent1 before some cut index of the slot list and parent2 from
\* it on, whole slots at a time, and child2 is the complement.
IsOnePointCrossover(parent1, parent2, child1, child2) ==
    \E cut \in 0..Len(slots) :
        \A k \in DOMAIN slots :
            IF k - 1 < cut
            THEN child1[slots[k]] = parent1[slots[k]]
                 /\ child2[slots[k]] = parent2[slots[k]]
            ELSE child1[slots[k]] = parent2[slots[k]]
                 /\ child2[slots[k]] = parent1[slots[k]]

\* The MOEA/D step from "produce" that made new slot dicts is its crossover:
\* the children are a one-point crossover of two members of the
\* neighbourhood, they are made of dicts no member holds, and the members
\* are as before.
MoeadCrossoverAsSpecified ==
    (pc = "produce" /\ Len(heap') > Len(heap)) =>
        /\ \E p \in ParentPairs :
             IsOnePointCrossover(
                 Deref(moead_population[neighborhoods[sub][p[1]]], heap),
                 Deref(moead_population[neighborhoods[sub][p[2]]], heap),
                 Deref(new_solutions'[1], heap'),
                 Deref(new_solutions'[2], heap'))
        /\ \A s, t \in SlotSet :
             /\ new_solutions'[1][s] /= new_solutions'[2][t]
             /\ \A i \in DOMAIN moead_population' : \A k \in {1, 2} :
                  moead_population'[i][t] /= new_solutions'[k][s]
        /\ PopulationCells' = PopulationCells

\* C27: crossover returns two new timetables, the first equal to parentA on
\* every slot before one cut index and to parentB from it on, the second the
\* complement; a slot's rooms all come from one parent, and the parents are
\* left as they were.
C27_OnePointCrossover ==
    /\ [](op = "crossover" =>
            IsOnePointCrossover(out.parent1, out.parent2,
                                out.child1, out.child2))
    /\ [][MoeadCrossoverAsSpecified]_vars

\* Both crossovers have produced a first child that is neither of its
\* parents.
C27_Witness ==
    /\ op = "crossover"
    /\ out.child1 \notin {out.parent1, out.parent2}
    /\ out.child2 \notin {out.parent1, out.parent2}
    /\ pc = "mutate1"
    /\ \A i \in DOMAIN moead_population :
         Deref(new_solutions[1], heap) /= PopulationCells[i]

\* The area of the region that the points of the front dominate inside the
\* box closed by the reference point, counted in unit squares of the grid.
DominatedArea(front, reference_point) ==
    Cardinality({c \in (0..(reference_point[1] - 1))
                          \X (0..(reference_point[2] - 1)) :
                   \E k \in DOMAIN front :
                       front[k][1] <= c[1] /\ front[k][2] <= c[2]})

\* C28: for a front of two or more mutually non-dominated points, each
\* strictly better than the reference point in both objectives,
\* calculate_hypervolume returns the area dominated by the front and bounded
\* by the reference point.
C28_HypervolumeIsDominatedArea ==
    (/\ op = "hypervolume"
     /\ Len(out.front) >= 2
     /\ \A i, j \in DOMAIN out.front :
          ~metrics_dominates(out.front[i], out.front[j])
     /\ \A i \in DOMAIN out.front :
          /\ out.front[i][1] < ReferencePoint[1]
          /\ out.front[i][2] < ReferencePoint[2])
        => out.value = Num(DominatedArea(out.front, ReferencePoint))

(***************************************************************************)
(* MetricsTracker as run_single_generation of NSGA-II drives it, once per  *)
(* generation.  Fitness lists of up to TrackerN vectors are recorded for   *)
(* MaxRecorded generations.  The indices of a front are counted from 1.    *)
(***************************************************************************)
TrackerN == 3
MaxRecorded == 2

\* reference_point = None
NoPoint == <<>>

\* The measured times handed to add_execution_time.
ExecutionTimes == {1, 2}

\* metrics.extract_pareto_front: the outer loop over i with the list built so
\* far and the dominated flags, the inner loop over j > i.
extract_pareto_front(fitness_values) ==
    LET n == Len(fitness_values)
        RECURSIVE Inner(_, _, _)
        Inner(i, j, dominated) ==
            IF j > n THEN [dominated |-> dominated, popped |-> FALSE]
            ELSE IF dominated[j] THEN Inner(i, j + 1, dominated)
            ELSE IF metrics_dominates(fitness_values[i], fitness_values[j])
            THEN Inner(i, j + 1, [dominated EXCEPT ![j] = TRUE])
            ELSE IF metrics_dominates(fitness_values[j], fitness_values[i])
            THEN [dominated |-> [dominated EXCEPT ![i] = TRUE],
                  popped |-> TRUE]
            ELSE Inner(i, j + 1, dominated)
        RECURSIVE Outer(_, _, _)
        Outer(i, pareto_front, dominated) ==
            IF i > n THEN pareto_front
            ELSE IF dominated[i] THEN Outer(i + 1, pareto_front, dominated)
            ELSE LET inner == Inner(i, i + 1, dominated)
                 IN Outer(i + 1,
                          IF inner.popped THEN pareto_front
                          ELSE Append(pareto_front, i),
                          inner.dominated)
    IN Outer(1, <<>>, [k \in 1..n |-> FALSE])

\* Mutant: the reference front is rebuilt from the current front alone.
combined_front_current_only(best_front, pareto_front) == pareto_front

\* combined_front = self.best_front + pareto_front
combined_front(best_front, pareto_front) == best_front \o pareto_front

\* MetricsTracker.add_generation_metrics: the tracker after the call.  The
\* reference point is 1.2 times the worst values and is kept in fifths
\* (6 * max); the hypervolume is computed on the points in fifths too, so
\* it is in units of 1/25.
add_generation_metrics(self, fitness_values, gen) ==
    IF fitness_values = <<>> THEN self
    ELSE
    LET hard_violations == [i \in DOMAIN fitness_values |-> fitness_values[i][1]]
        soft_scores == [i \in DOMAIN fitness_values |-> fitness_values[i][2]]
        best_hard == MinOf(Range(hard_violations))
        average_hard == Rat(SumSeq(hard_violations), Len(hard_violations))
        best_soft == MinOf(Range(soft_scores))
        average_soft == Rat(SumSeq(soft_scores), Len(soft_scores))
        pareto_indices == extract_pareto_front(fitness_values)
        pareto_front == [x \in DOMAIN pareto_indices |->
                            fitness_values[pareto_indices[x]]]
        front_size == Len(pareto_front)
        best_front ==
            IF self.best_front = <<>> THEN pareto_front
            ELSE LET combined == combined_front(self.best_front, pareto_front)
                     combined_indices == extract_pareto_front(combined)
                 IN [x \in DOMAIN combined_indices |->
                        combined[combined_indices[x]]]
        reference_point ==
            IF front_size > 0 /\ (self.reference_point = NoPoint \/ gen % 10 = 0)
            THEN <<6 * MaxOf(Range(hard_violations)),
                   6 * MaxOf(Range(soft_scores))>>
            ELSE self.reference_point
        hypervolume ==
            IF front_size > 0
            THEN calculate_hypervolume(
                     [x \in DOMAIN pareto_front |->
                         <<5 * pareto_front[x][1], 5 * pareto_front[x][2]>>],
                     reference_point)
            ELSE Num(0)
        spacing == IF front_size > 0 THEN calculate_spacing(pareto_front)
                   ELSE Num(0)
    IN [metrics |->
          [self.metrics EXCEPT
             !.best_hard_violations = Append(@, best_hard),
             !.best_soft_score = Append(@, best_soft),
             !.average_hard_violations = Append(@, average_hard),
             !.average_soft_score = Append(@, average_soft),
             !.pareto_front_size = Append(@, front_size),
             !.hypervolume = Append(@, hypervolume),
             !.spacing = Append(@, spacing),
             !.igd = IF front_size = 0 THEN Append(@, Num(0))
                     ELSE IF best_front /= <<>>
                     THEN Append(@, calculate_igd(pareto_front, best_front))
                     ELSE @],
        best_front |-> best_front,
        reference_point |-> reference_point]

\* MetricsTracker.add_constraint_violations
add_constraint_violations(self, hard_violations, soft_violations) ==
    [self EXCEPT !.metrics.constraint_violations =
                     Append(@, <<hard_violations, soft_violations>>)]

\* MetricsTracker.add_execution_time
add_execution_time(self, execution_time) ==
    [self EXCEPT !.metrics.execution_time =
                     [kind |-> "float", val |-> execution_time]]

\* setup_optimization: MetricsTracker() and the reference point
\* [float('inf'), 1.0] set on it.
InitTracker ==
    /\ metrics_tracker =
         [metrics |-> [best_hard_violations |-> <<>>,
                       best_soft_score |-> <<>>,
                       average_hard_violations |-> <<>>,
                       average_soft_score |-> <<>>,
                       constraint_violations |-> <<>>,
                       pareto_front_size |-> <<>>,
                       hypervolume |-> <<>>,
                       spacing |-> <<>>,
                       igd |-> <<>>,
                       execution_time |-> [kind |-> "list", val |-> <<>>],
                       solution_diversity |-> <<>>],
          best_front |-> <<>>,
          reference_point |-> <<"inf", "1.0">>]
    /\ tracker_seen = <<>>
    /\ IdleFit
    /\ IdleEval
    /\ IdleNsga2
    /\ IdleMoead
    /\ IdleSpea2

\* What run_single_generation does to the tracker: add_generation_metrics on
\* the fitness list of the population, add_constraint_violations with the
\* violation dict of the first individual of least hard score (named here by
\* its index) and 0, and add_execution_time with the time measured.  The
\* population of the driver is never empty.
TrackSingleGeneration ==
    /\ generation < MaxRecorded
    /\ \E fitness_values \in SeqsUpTo(FitVec, TrackerN) \ {<<>>} :
         LET best_idx ==
                 MinOf({i \in DOMAIN fitness_values :
                          \A j \in DOMAIN fitness_values :
                              fitness_values[i][1] <= fitness_values[j][1]})
             violation_dict == [of |-> best_idx]
         IN /\ \E generation_time \in ExecutionTimes :
                 metrics_tracker' =
                   add_execution_time(
                     add_constraint_violations(
                       add_generation_metrics(metrics_tracker, fitness_values,
                                              generation),
                       violation_dict, 0),
                     generation_time)
            /\ tracker_seen' =
                 Append(tracker_seen,
                        [fitness_values |-> fitness_values,
                         pareto_indices |->
                             extract_pareto_front(fitness_values)])
    /\ generation' = generation + 1
    /\ UNCHANGED <<fitVars, evalVars, nsga2Vars, spea2Vars, heap,
                   moead_population, moead_fitness, moead_ideal, evaluated,
                   new_solutions, pc, sub>>

SpecTracker == InitTracker /\ [][TrackSingleGeneration]_vars

\* The points of the Pareto fronts of the generations recorded so far.
SeenFrontPoints ==
    UNION {{s.fitness_values[s.pareto_indices[x]] : x \in DOMAIN s.pareto_indices}
           : s \in Range(tracker_seen)}

\* The indices of the points of a list that no point of the list dominates.
NonDominatedIndices(fitness_values) ==
    {i \in DOMAIN fitness_values :
        \A j \in DOMAIN fitness_values :
            ~metrics_dominates(fitness_values[j], fitness_values[i])}

\* C29: after any sequence of add_generation_metrics calls, best_front is the
\* non-dominated union of the Pareto fronts seen so far: its members are points
\* of those fronts and mutually non-dominated, and every point of every front
\* seen is in best_front or dominated by a member of it; the front that
\* extract_pareto_front returned for a generation is exactly the indices of the
\* points that no other point dominates, each once.
C29_BestFrontIsNonDominatedUnion ==
    tracker_seen /= <<>> =>
        LET best_front == Range(metrics_tracker.best_front)
        IN /\ best_front \subseteq SeenFrontPoints
           /\ \A p, q \in best_front : ~metrics_dominates(p, q)
           /\ \A p \in SeenFrontPoints :
                \/ p \in best_front
                \/ \E q \in best_front : metrics_dominates(q, p)
           /\ \A x \in DOMAIN tracker_seen :
                LET s == tracker_seen[x]
                IN /\ Range(s.pareto_indices)
                        = NonDominatedIndices(s.fitness_values)
                   /\ Cardinality(Range(s.pareto_indices))
                        = Len(s.pareto_indices)

\* Two generations are recorded; the first front had two points, of which
\* one is still in best_front and the other was dropped for a point of the
\* second front that dominates it, and the second generation held a dominated
\* point that its front leaves out.
C29_Witness ==
    /\ Len(tracker_seen) = 2
    /\ Len(tracker_seen[1].pareto_indices) = 2
    /\ \E p, q \in Range(tracker_seen[1].fitness_values) :
         /\ p \in Range(metrics_tracker.best_front)
         /\ q \notin Range(metrics_tracker.best_front)
         /\ \E r \in Range(metrics_tracker.best_front) :
              /\ metrics_dominates(r, q)
              /\ r \in Range(tracker_seen[2].fitness_values)
    /\ Len(tracker_seen[2].fitness_values) = 3
    /\ Len(tracker_seen[2].pareto_indices) < 3

\* The series of the metrics dict that C30 names, but for execution_time.
GenerationSeries ==
    <<metrics_tracker.metrics.best_hard_violations,
      metrics_tracker.metrics.average_hard_violations,
      metrics_tracker.metrics.best_soft_score,
      metrics_tracker.metrics.average_soft_score,
      metrics_tracker.metrics.pareto_front_size,
      metrics_tracker.metrics.hypervolume,
      metrics_tracker.metrics.spacing,
      metrics_tracker.metrics.igd>>

\* C30: once generations have been recorded, each of best/average hard
\* violations, best/average soft score, Pareto-front size, hypervolume,
\* spacing, IGD and execution time is a list with one entry per recorded
\* generation.
C30_SeriesOneEntryPerGeneration ==
    tracker_seen /= <<>> =>
        /\ \A k \in DOMAIN GenerationSeries :
             Len(GenerationSeries[k]) = Len(tracker_seen)
        /\ metrics_tracker.metrics.execution_time.kind = "list"
        /\ Len(metrics_tracker.metrics.execution_time.val) = Len(tracker_seen)

\* The eight series that add_generation_metrics appends to have one entry
\* per recorded generation.
AppendedSeriesAligned ==
    tracker_seen /= <<>> =>
        \A k \in DOMAIN GenerationSeries :
            Len(GenerationSeries[k]) = Len(tracker_seen)

====
